---- MODULE Spec2Model ----
(***************************************************************************)
(* Model of the chunked recommendation engine                              *)
(* (server/services/chunkedRecommendationEngine.js): data sanitisation,    *)
(* the course-similarity matrix, the trainee filter pipeline, per-trainee  *)
(* scoring and the chunked run with its progress events.                   *)
(*                                                                         *)
(* Strings are sequences of one-character strings, so that toLowerCase,    *)
(* split, trim and includes are computed and not assumed.  Numbers that    *)
(* are fractions in the program are exact rationals <<num, den>> with      *)
(* den > 0; the program computes them in IEEE doubles.                     *)
(***************************************************************************)
EXTENDS Integers, Sequences, FiniteSets, TLC

VARIABLES
    data,                   \* the dataset argument
    options,                \* the options argument
    hasCallback,            \* progressCallback is not null
    env,                    \* what the run's surroundings may do: the callback
                            \* throw, the scoring promise reject, the consumer leave
    pc,                     \* position of the run in generateTraineeRecommendationsChunked
    cleanedData,            \* const cleanedData
    filteredTrainees,       \* let filteredTrainees
    limitedTrainees,        \* const limitedTrainees
    similarityMatrix,       \* const similarityMatrix
    chunks,                 \* const chunks
    traineeRecommendations, \* const traineeRecommendations
    processedCount,         \* let processedCount
    chunkIndex,             \* loop variable chunkIndex
    indexInChunk,           \* loop variable indexInChunk
    events,                 \* the events handed to progressCallback, in order
    probLog,                \* every probability the scoring computed, in order
    scoreCalls,             \* the trainees generateTraineeRecommendations was called for
    listening,              \* the consumer behind progressCallback still listens
    outcome,                \* "running", "returned" or "threw", with the value
    lookup,                 \* a direct call of the scoring helpers: its arguments
                            \* and what it returned
    dbm,                    \* the DatabaseManager: this.cache, this.cacheExpiry
                            \* and the tables behind this.db
    now,                    \* Date.now()
    callers,                \* the calls of the cached operations in progress
    importer,               \* the call of importData in progress
    parked                  \* the other run on the same engine, when there is
                            \* one: its options, position, locals, events and
                            \* outcome while this run executes

vars == <<data, options, hasCallback, env, pc, cleanedData, filteredTrainees,
          limitedTrainees, similarityMatrix, chunks, traineeRecommendations,
          processedCount, chunkIndex, indexInChunk, events, probLog,
          scoreCalls, listening, outcome, lookup, dbm, now, callers, importer,
          parked>>

----------------------------------------------------------------------------
(* Exact rationals *)

RECURSIVE Gcd(_, _)
Gcd(a, b) == IF b = 0 THEN a ELSE Gcd(b, a % b)

\* n / d in lowest terms (n >= 0, d > 0)
Rat(n, d) == LET g == Gcd(n, d) IN <<n \div g, d \div g>>
RatZero == <<0, 1>>
RatOne == <<1, 1>>
RatLe(a, b) == a[1] * b[2] <= b[1] * a[2]
RatLt(a, b) == a[1] * b[2] < b[1] * a[2]
RatEq(a, b) == a[1] * b[2] = b[1] * a[2]
RatAdd(a, b) == Rat(a[1] * b[2] + b[1] * a[2], a[2] * b[2])
RatMul(a, b) == Rat(a[1] * b[1], a[2] * b[2])
RatMin(a, b) == IF RatLe(a, b) THEN a ELSE b
RatMax(a, b) == IF RatLe(a, b) THEN b ELSE a

\* Math.round(x * 100): the nearest integer, halves rounded up (x >= 0)
RoundCents(x) == (200 * x[1] + x[2]) \div (2 * x[2])

\* Math.round(x * 100) / 100
Round2(x) == Rat(RoundCents(x), 100)

----------------------------------------------------------------------------
(* Strings *)

UpperChars == <<"A", "B", "C", "D", "E", "F", "G", "H", "I", "J", "K", "L", "M",
                "N", "O", "P", "Q", "R", "S", "T", "U", "V", "W", "X", "Y", "Z">>
LowerChars == <<"a", "b", "c", "d", "e", "f", "g", "h", "i", "j", "k", "l", "m",
                "n", "o", "p", "q", "r", "s", "t", "u", "v", "w", "x", "y", "z">>

LowerChar(c) ==
    IF \E i \in DOMAIN UpperChars : UpperChars[i] = c
    THEN LowerChars[CHOOSE i \in DOMAIN UpperChars : UpperChars[i] = c]
    ELSE c

\* String.prototype.toLowerCase
ToLowerCase(s) == [i \in DOMAIN s |-> LowerChar(s[i])]

\* what the regular expression \s matches
IsSpace(c) == c \in {" ", "\t", "\n"}

\* String.prototype.split(/\s+/): the pieces between maximal runs of white
\* space; a leading or trailing run leaves an empty piece
RECURSIVE SplitFrom(_, _, _)
SplitFrom(s, i, cur) ==
    IF i > Len(s) THEN <<cur>>
    ELSE IF IsSpace(s[i])
         THEN IF i > 1 /\ IsSpace(s[i - 1])
              THEN SplitFrom(s, i + 1, cur)
              ELSE <<cur>> \o SplitFrom(s, i + 1, <<>>)
         ELSE SplitFrom(s, i + 1, Append(cur, s[i]))

SplitWhitespace(s) == SplitFrom(s, 1, <<>>)

\* String.prototype.trim
RECURSIVE TrimLeft(_)
TrimLeft(s) == IF s # <<>> /\ IsSpace(Head(s)) THEN TrimLeft(Tail(s)) ELSE s

RECURSIVE TrimRight(_)
TrimRight(s) ==
    IF s # <<>> /\ IsSpace(s[Len(s)]) THEN TrimRight(SubSeq(s, 1, Len(s) - 1)) ELSE s

Trim(s) == TrimRight(TrimLeft(s))

\* String.prototype.includes
Includes(s, t) ==
    \E k \in 0 .. (Len(s) - Len(t)) : SubSeq(s, k + 1, k + Len(t)) = t

Range(s) == {s[i] : i \in DOMAIN s}

----------------------------------------------------------------------------
(* SimilarityIndex *)

\* course.CustomName.toLowerCase().split(/\s+/).filter(word => word.length > 2)
LongWord(w) == Len(w) > 2
CourseWords(name) == SelectSeq(SplitWhitespace(ToLowerCase(name)), LongWord)

\* calculateFastSimilarity(words1, words2)
CalculateFastSimilarity(words1, words2) ==
    IF Len(words1) = 0 \/ Len(words2) = 0 THEN RatZero
    ELSE LET words2Set == Range(words2)
             commonWords == Cardinality({i \in DOMAIN words1 : words1[i] \in words2Set})
             longest == IF Len(words1) >= Len(words2) THEN Len(words1) ELSE Len(words2)
         IN  Rat(commonWords, longest)

CourseIds(courses) == {courses[i].CourseBasicDataId : i \in DOMAIN courses}

\* the course a Map or an object keyed by id ends up holding for id: the last
\* one of the list with that id
LastCourseWithId(courses, id) ==
    courses[CHOOSE i \in DOMAIN courses :
              /\ courses[i].CourseBasicDataId = id
              /\ \A j \in DOMAIN courses :
                    courses[j].CourseBasicDataId = id => j <= i]

\* calculateBasicSimilarityMatrix(courses): matrix[id1][id2]
CalculateBasicSimilarityMatrix(courses) ==
    [id1 \in CourseIds(courses) |->
        [id2 \in CourseIds(courses) |->
            IF id1 = id2 THEN RatOne
            ELSE CalculateFastSimilarity(
                     CourseWords(LastCourseWithId(courses, id1).CustomName),
                     CourseWords(LastCourseWithId(courses, id2).CustomName))]]

\* similarityMatrix[a]?.[b] || 1
MatrixLookupAbsentAsOne(matrix, a, b) ==
    IF a \in DOMAIN matrix /\ b \in DOMAIN matrix[a] THEN matrix[a][b] ELSE RatOne

\* similarityMatrix[a]?.[b] || 0
MatrixLookup(matrix, a, b) ==
    IF a \in DOMAIN matrix /\ b \in DOMAIN matrix[a] THEN matrix[a][b] ELSE RatZero

----------------------------------------------------------------------------
(* DataSanitizer *)

\* cleanDataIntegrity with the filter of lines 511-517 left out
CleanDataIntegrityKeepsAll(d) ==
    [courses |-> d.courses, enrollments |-> d.enrollments, trainees |-> d.trainees]

\* cleanDataIntegrity(data)
CleanDataIntegrity(d) ==
    LET validCourseIds == CourseIds(d.courses)
        IsValid(enrollment) == enrollment.CourseId \in validCourseIds
    IN  [courses |-> d.courses,
         enrollments |-> SelectSeq(d.enrollments, IsValid),
         trainees |-> d.trainees]

----------------------------------------------------------------------------
(* ScoringEngine *)

Min2(a, b) == IF a <= b THEN a ELSE b

\* Array.prototype.slice(0, n) for n >= 0
SliceTo(s, n) == SubSeq(s, 1, Min2(n, Len(s)))

BaseProbability == Rat(1, 10)
PopularityCap == Rat(3, 10)
SimilarityWeight == Rat(1, 2)
StatusBonus == Rat(2, 10)
PopularityDivisor == 100
CreatedStatus == 1
SimilarCourseThreshold == Rat(1, 10)
TopSimilarLimit == 2

\* the least number of enrollments of a course beyond the popularity cap
PopularCrowdSize == (3 * PopularityDivisor) \div 10 + 1

\* enrollments.filter(e => e.MemberId === trainee.MemberId).map(e => e.CourseId)
EnrolledCourseIdsOf(memberId, enrollments) ==
    LET IsMine(e) == e.MemberId = memberId
        mine == SelectSeq(enrollments, IsMine)
    IN  [i \in DOMAIN mine |-> mine[i].CourseId]

\* enrollments.filter(e => e.CourseId === course.CourseBasicDataId).length
CourseEnrollmentCount(courseId, enrollments) ==
    LET IsOfCourse(e) == e.CourseId = courseId
    IN  Len(SelectSeq(enrollments, IsOfCourse))

\* the loop of lines 305-311: the largest similarity above 0, 0 when none
RECURSIVE MaxSimilarityFrom(_, _, _, _, _)
MaxSimilarityFrom(enrolledCourseIds, courseId, matrix, i, maxSimilarity) ==
    IF i > Len(enrolledCourseIds) THEN maxSimilarity
    ELSE LET similarity == MatrixLookup(matrix, courseId, enrolledCourseIds[i])
         IN  MaxSimilarityFrom(enrolledCourseIds, courseId, matrix, i + 1,
                 IF RatLt(maxSimilarity, similarity) THEN similarity ELSE maxSimilarity)

\* Factor 1 as calculateRecommendationProbability (lines 330-334) computes it:
\* the count over the largest count of any course, weighted 0.2
RECURSIVE MaxEnrollmentCount(_, _)
MaxEnrollmentCount(courses, enrollments) ==
    IF courses = <<>> THEN 0
    ELSE LET here == CourseEnrollmentCount(Head(courses).CourseBasicDataId, enrollments)
             rest == MaxEnrollmentCount(Tail(courses), enrollments)
         IN  IF here >= rest THEN here ELSE rest

PopularityFactorMaxNormalized(course, courses, enrollments) ==
    LET maxEnrollments == MaxEnrollmentCount(courses, enrollments)
    IN  IF maxEnrollments > 0
        THEN Rat(2 * CourseEnrollmentCount(course.CourseBasicDataId, enrollments),
                 10 * maxEnrollments)
        ELSE RatZero

\* Factor 1 of calculateFastRecommendationProbability
PopularityFactor(course, courses, enrollments) ==
    RatMin(Rat(CourseEnrollmentCount(course.CourseBasicDataId, enrollments),
               PopularityDivisor),
           PopularityCap)

\* the sum of lines 297-318 returned without the Math.min of line 320
ProbabilityUnclamped(enrolledCourseIds, course, courses, enrollments, matrix) ==
    LET p1 == RatAdd(BaseProbability, PopularityFactor(course, courses, enrollments))
        p2 == IF Len(enrolledCourseIds) > 0
              THEN RatAdd(p1, RatMul(MaxSimilarityFrom(enrolledCourseIds,
                                         course.CourseBasicDataId, matrix, 1, RatZero),
                                     SimilarityWeight))
              ELSE p1
    IN  IF course.Status = CreatedStatus THEN RatAdd(p2, StatusBonus) ELSE p2

\* calculateFastRecommendationProbability(enrolledCourseIds, course, enrollments,
\* similarityMatrix); courses is passed for the popularity factor's sake only
CalculateFastRecommendationProbability(enrolledCourseIds, course, courses, enrollments, matrix) ==
    LET p0 == BaseProbability
        p1 == RatAdd(p0, PopularityFactor(course, courses, enrollments))
        p2 == IF Len(enrolledCourseIds) > 0
              THEN RatAdd(p1, RatMul(MaxSimilarityFrom(enrolledCourseIds,
                                         course.CourseBasicDataId, matrix, 1, RatZero),
                                     SimilarityWeight))
              ELSE p1
        p3 == IF course.Status = CreatedStatus THEN RatAdd(p2, StatusBonus) ELSE p2
    IN  RatMin(p3, RatOne)

\* stable descending insertion: x goes behind every element whose key is >= its own
InsertBySimilarity(sorted, x) ==
    LET k == Cardinality({i \in DOMAIN sorted :
                             ~RatLt(sorted[i].similarity, x.similarity)})
    IN  SubSeq(sorted, 1, k) \o <<x>> \o SubSeq(sorted, k + 1, Len(sorted))

\* similarities.sort((a, b) => b.similarity - a.similarity)
RECURSIVE SortBySimilarityFrom(_, _, _)
SortBySimilarityFrom(s, i, acc) ==
    IF i > Len(s) THEN acc
    ELSE SortBySimilarityFrom(s, i + 1, InsertBySimilarity(acc, s[i]))

SortBySimilarity(s) == SortBySimilarityFrom(s, 1, <<>>)

\* findTopSimilarCourses(courseId, enrolledCourseIds, courses, similarityMatrix)
FindTopSimilarCourses(courseId, enrolledCourseIds, courses, matrix) ==
    LET Meaningful(enrolledCourseId) ==
            /\ RatLt(SimilarCourseThreshold, MatrixLookup(matrix, courseId, enrolledCourseId))
            /\ enrolledCourseId \in CourseIds(courses)
        kept == SelectSeq(enrolledCourseIds, Meaningful)
        similarities ==
            [i \in DOMAIN kept |->
                [courseId |-> kept[i],
                 courseName |-> LastCourseWithId(courses, kept[i]).CustomName,
                 similarity |-> Round2(MatrixLookup(matrix, courseId, kept[i]))]]
    IN  SliceTo(SortBySimilarity(similarities), TopSimilarLimit)

InsertByProbability(sorted, x) ==
    LET k == Cardinality({i \in DOMAIN sorted :
                             ~RatLt(sorted[i].probability, x.probability)})
    IN  SubSeq(sorted, 1, k) \o <<x>> \o SubSeq(sorted, k + 1, Len(sorted))

\* recommendations.sort((a, b) => b.probability - a.probability)
RECURSIVE SortByProbabilityFrom(_, _, _)
SortByProbabilityFrom(s, i, acc) ==
    IF i > Len(s) THEN acc
    ELSE SortByProbabilityFrom(s, i + 1, InsertByProbability(acc, s[i]))

SortByProbability(s) == SortByProbabilityFrom(s, 1, <<>>)

\* the loop of line 263 without the skip of lines 264-266
CandidateCoursesNoSkip(enrolledCourseIds, courses) == courses

\* the courses the loop of line 263 does not skip, in list order
CandidateCourses(enrolledCourseIds, courses) ==
    LET enrolledSet == Range(enrolledCourseIds)
        NotEnrolled(course) == course.CourseBasicDataId \notin enrolledSet
    IN  SelectSeq(courses, NotEnrolled)

\* every call of calculateFastRecommendationProbability made for one trainee
ProbabilitiesComputed(trainee, courses, enrollments, matrix) ==
    LET enrolledCourseIds == EnrolledCourseIdsOf(trainee.MemberId, enrollments)
        candidates == CandidateCourses(enrolledCourseIds, courses)
    IN  [i \in DOMAIN candidates |->
            [traineeId |-> trainee.MemberId,
             courseId |-> candidates[i].CourseBasicDataId,
             probability |-> CalculateFastRecommendationProbability(
                                 enrolledCourseIds, candidates[i], courses,
                                 enrollments, matrix)]]

\* the test of line 273
MeetsMinProbability(probability, minProbability) == RatLe(minProbability, probability)

\* the recommendation object of lines 274-281
MakeRecommendation(course, probability, enrolledCourseIds, courses, matrix) ==
    [courseId |-> course.CourseBasicDataId,
     courseName |-> course.CustomName,
     courseStatus |-> course.Status,
     probability |-> Round2(probability),
     explanation |-> RoundCents(probability),
     similarCourses |->
        IF Len(enrolledCourseIds) > 0
        THEN FindTopSimilarCourses(course.CourseBasicDataId, enrolledCourseIds,
                                   courses, matrix)
        ELSE <<>>]

\* generateTraineeRecommendations(trainee, courses, enrollments, similarityMatrix,
\* courseContexts, {maxRecommendations, minProbability, includeExplanations})
GenerateTraineeRecommendations(trainee, courses, enrollments, matrix, opts) ==
    LET enrolledCourseIds == EnrolledCourseIdsOf(trainee.MemberId, enrollments)
        candidates == CandidateCourses(enrolledCourseIds, courses)
        Prob(course) == CalculateFastRecommendationProbability(
                            enrolledCourseIds, course, courses, enrollments, matrix)
        Passes(course) == MeetsMinProbability(Prob(course), opts.minProbability)
        passing == SelectSeq(candidates, Passes)
        recommendations ==
            [i \in DOMAIN passing |->
                MakeRecommendation(passing[i], Prob(passing[i]), enrolledCourseIds,
                                   courses, matrix)]
    IN  SliceTo(SortByProbability(recommendations), opts.maxRecommendations)

\* getTraineeCurrentCourses(traineeId, enrollments, courses)
GetTraineeCurrentCourses(traineeId, enrollments, courses) ==
    LET IsMineAndValid(e) ==
            e.MemberId = traineeId /\ e.CourseId \in CourseIds(courses)
        mine == SelectSeq(enrollments, IsMineAndValid)
    IN  [i \in DOMAIN mine |->
            [courseId |-> mine[i].CourseId,
             courseName |-> LastCourseWithId(courses, mine[i].CourseId).CustomName,
             courseStatus |-> LastCourseWithId(courses, mine[i].CourseId).Status]]

----------------------------------------------------------------------------
(* TraineeFilterPipeline *)

\* An optional number is a sequence: <<>> for undefined, <<n>> for n.
\* An optional string is the empty sequence when it is missing or empty.
\* hasEnrollments is "undefined", "true" or "false".

\* traineeHasEnrollments(traineeId, enrollments)
TraineeHasEnrollments(traineeId, enrollments) ==
    \E i \in DOMAIN enrollments : enrollments[i].MemberId = traineeId

\* traineeEnrolledInCourses(traineeId, courseIds, enrollments)
TraineeEnrolledInCourses(traineeId, courseIds, enrollments) ==
    LET IsMine(e) == e.MemberId = traineeId
        traineeEnrollments == SelectSeq(enrollments, IsMine)
    IN  \E c \in DOMAIN courseIds :
            \E i \in DOMAIN traineeEnrollments :
                traineeEnrollments[i].CourseId = courseIds[c]

\* getTraineeEnrollmentCount(traineeId, enrollments)
GetTraineeEnrollmentCount(traineeId, enrollments) ==
    LET IsMine(e) == e.MemberId = traineeId
    IN  Len(SelectSeq(enrollments, IsMine))

\* lines 535-546
FilterByName(filtered, filters) ==
    IF filters.nameSearch # <<>> /\ Trim(filters.nameSearch) # <<>>
    THEN LET searchTerm == Trim(ToLowerCase(filters.nameSearch))
             Matches(trainee) ==
                \/ Includes(ToLowerCase(trainee.Name), searchTerm)
                \/ Includes(ToLowerCase(trainee.FirstName), searchTerm)
                \/ Includes(ToLowerCase(trainee.LastName), searchTerm)
         IN  SelectSeq(filtered, Matches)
    ELSE filtered

\* lines 549-555
FilterByEmail(filtered, filters) ==
    IF filters.emailSearch # <<>> /\ Trim(filters.emailSearch) # <<>>
    THEN LET searchTerm == Trim(ToLowerCase(filters.emailSearch))
             Matches(trainee) == Includes(ToLowerCase(trainee.Email), searchTerm)
         IN  SelectSeq(filtered, Matches)
    ELSE filtered

\* lines 558-564
FilterByPhone(filtered, filters) ==
    IF filters.phoneSearch # <<>> /\ Trim(filters.phoneSearch) # <<>>
    THEN LET searchTerm == Trim(filters.phoneSearch)
             Matches(trainee) == Includes(trainee.Phone, searchTerm)
         IN  SelectSeq(filtered, Matches)
    ELSE filtered

\* lines 567-572
FilterByHasEnrollments(filtered, filters) ==
    IF filters.hasEnrollments # "undefined"
    THEN LET Matches(trainee) ==
                LET hasEnrollments ==
                        TraineeHasEnrollments(trainee.MemberId, filters.enrollments)
                IN  IF filters.hasEnrollments = "true"
                    THEN hasEnrollments ELSE ~hasEnrollments
         IN  SelectSeq(filtered, Matches)
    ELSE filtered

\* lines 575-579
FilterByEnrolledInCourse(filtered, filters) ==
    IF Len(filters.enrolledInCourse) > 0
    THEN LET Matches(trainee) ==
                TraineeEnrolledInCourses(trainee.MemberId, filters.enrolledInCourse,
                                         filters.enrollments)
         IN  SelectSeq(filtered, Matches)
    ELSE filtered

\* lines 582-589 with > and < in place of >= and <=
FilterByEnrollmentCountExclusive(filtered, filters) ==
    IF filters.minEnrollments # <<>> \/ filters.maxEnrollments # <<>>
    THEN LET Matches(trainee) ==
                LET enrollmentCount ==
                        GetTraineeEnrollmentCount(trainee.MemberId, filters.enrollments)
                    meetsMin == \/ filters.minEnrollments = <<>>
                                \/ enrollmentCount > filters.minEnrollments[1]
                    meetsMax == \/ filters.maxEnrollments = <<>>
                                \/ enrollmentCount < filters.maxEnrollments[1]
                IN  meetsMin /\ meetsMax
         IN  SelectSeq(filtered, Matches)
    ELSE filtered

\* lines 582-589
FilterByEnrollmentCount(filtered, filters) ==
    IF filters.minEnrollments # <<>> \/ filters.maxEnrollments # <<>>
    THEN LET Matches(trainee) ==
                LET enrollmentCount ==
                        GetTraineeEnrollmentCount(trainee.MemberId, filters.enrollments)
                    meetsMin == \/ filters.minEnrollments = <<>>
                                \/ enrollmentCount >= filters.minEnrollments[1]
                    meetsMax == \/ filters.maxEnrollments = <<>>
                                \/ enrollmentCount <= filters.maxEnrollments[1]
                IN  meetsMin /\ meetsMax
         IN  SelectSeq(filtered, Matches)
    ELSE filtered

\* lines 532-589: the predicates, applied in the order of the code
PredicateFiltered(trainees, filters) ==
    FilterByEnrollmentCount(
        FilterByEnrolledInCourse(
            FilterByHasEnrollments(
                FilterByPhone(
                    FilterByEmail(
                        FilterByName(trainees, filters), filters), filters), filters),
            filters), filters)

\* what filtered.sort(() => 0.5 - Math.random()) can leave: any order
Shuffles(s) ==
    LET n == Len(s)
        Bijections == {f \in [1 .. n -> 1 .. n] : \A i, j \in 1 .. n : f[i] = f[j] => i = j}
    IN  {[i \in 1 .. n |-> s[f[i]]] : f \in Bijections}

\* line 592 testing the size alone
UsesRandomSampleBySize(filters) == filters.randomSampleSize # 0

\* lines 592-595
UsesRandomSample(filters) == filters.randomSample /\ filters.randomSampleSize # 0

\* lines 598-600
UsesMaxResults(filters) == ~filters.randomSample /\ filters.maxResults > 0

\* applyTraineeFilters(trainees, filters): every list it can return
ApplyTraineeFilters(trainees, filters) ==
    LET filtered == PredicateFiltered(trainees, filters)
        sampled == IF UsesRandomSample(filters)
                   THEN {SliceTo(shuffled, filters.randomSampleSize) :
                            shuffled \in Shuffles(filtered)}
                   ELSE {filtered}
    IN  IF UsesMaxResults(filters)
        THEN {SliceTo(f, filters.maxResults) : f \in sampled}
        ELSE sampled

\* {...options.traineeFilters, enrollments: cleanedData.enrollments}
WithEnrollments(traineeFilters, enrollments) ==
    [traineeFilters EXCEPT !.enrollments = enrollments]

----------------------------------------------------------------------------
(* ChunkedExecutor: generateTraineeRecommendationsChunked *)

Collections == {"courses", "trainees", "enrollments"}

\* the test of line 25 without its last operand
InvalidDataIgnoresEnrollments(d) ==
    d.isNull \/ ~({"courses", "trainees"} \subseteq d.present)

\* the test of line 25
InvalidData(d) == d.isNull \/ d.present # Collections

\* filteredTrainees.slice(0, maxTrainees)
LimitTrainees(filtered, maxTrainees) == SliceTo(filtered, maxTrainees)

\* the loop of lines 77-80 stopping before a last chunk that is not full
MakeChunksFullOnly(limited, chunkSize) ==
    [k \in 1 .. (Len(limited) \div chunkSize) |->
        SubSeq(limited, (k - 1) * chunkSize + 1, k * chunkSize)]

\* the loop of lines 77-80
MakeChunks(limited, chunkSize) ==
    LET n == Len(limited)
        count == (n + chunkSize - 1) \div chunkSize
    IN  [k \in 1 .. count |->
            SubSeq(limited, (k - 1) * chunkSize + 1, Min2(k * chunkSize, n))]

\* Math.floor in place of Math.round
ProgressOfTruncated(processed, total) ==
    (20 * total + 70 * processed) \div total

\* Math.round(20 + (processed / total) * 70)
ProgressOf(processed, total) ==
    (2 * (20 * total + 70 * processed) + total) \div (2 * total)

DigitChars == <<"0", "1", "2", "3", "4", "5", "6", "7", "8", "9">>

\* String(n) for n >= 0
RECURSIVE NumberToString(_)
NumberToString(n) ==
    IF n < 10 THEN <<DigitChars[n + 1]>>
    ELSE Append(NumberToString(n \div 10), DigitChars[(n % 10) + 1])

\* trainee.Name ? String(trainee.Name) : `Trainee ${trainee.MemberId}`
TraineeNameOf(trainee) ==
    IF trainee.Name # <<>> THEN trainee.Name
    ELSE <<"T", "r", "a", "i", "n", "e", "e", " ">> \o NumberToString(trainee.MemberId)

\* the traineeResult object of lines 154-162 (processedAt left out)
MakeTraineeResult(trainee, recommendations, cleaned) ==
    [traineeId |-> trainee.MemberId,
     traineeName |-> TraineeNameOf(trainee),
     traineeEmail |-> trainee.Email,
     traineePhone |-> trainee.Phone,
     currentCourses |-> GetTraineeCurrentCourses(trainee.MemberId,
                            cleaned.enrollments, cleaned.courses),
     recommendations |-> recommendations]

RECURSIVE SumRecommendations(_)
SumRecommendations(results) ==
    IF results = <<>> THEN 0
    ELSE Len(Head(results).recommendations) + SumRecommendations(Tail(results))

\* the result object of lines 213-222 and 226-232
MakeResult(results, totalCourses) ==
    [success |-> TRUE,
     totalTrainees |-> Len(results),
     totalCourses |-> totalCourses,
     recommendationsGenerated |-> SumRecommendations(results),
     data |-> results]

\* An event handed to progressCallback.  Fields an event does not carry are
\* empty sequences.
Event(type, stage, progress, processed, total, traineeResult, result, error) ==
    [type |-> type, stage |-> stage, progress |-> progress,
     processedTrainees |-> processed, totalTrainees |-> total,
     traineeResult |-> traineeResult, result |-> result, error |-> error]

InitializingEvent(total) ==
    Event("progress", "initializing", <<0>>, <<>>, <<total>>, <<>>, <<>>, "")
CourseAnalysisEvent(total) ==
    Event("progress", "course_analysis", <<5>>, <<>>, <<total>>, <<>>, <<>>, "")
ChunkingSetupEvent(total) ==
    Event("progress", "chunking_setup", <<15>>, <<>>, <<total>>, <<>>, <<>>, "")
ChunkStartEvent(processed, total) ==
    Event("progress", "chunk_start", <<ProgressOf(processed, total)>>,
          <<processed>>, <<total>>, <<>>, <<>>, "")
TraineeStartEvent(globalIndex, total) ==
    Event("progress", "trainee_start", <<ProgressOf(globalIndex, total)>>,
          <<globalIndex>>, <<total>>, <<>>, <<>>, "")
TraineeCompleteEvent(globalIndex, total, traineeResult) ==
    Event("trainee_complete", "", <<ProgressOf(globalIndex + 1, total)>>,
          <<globalIndex + 1>>, <<total>>, <<traineeResult>>, <<>>, "")
ChunkCompleteEvent(processed, total) ==
    Event("progress", "chunk_complete", <<ProgressOf(processed, total)>>,
          <<processed>>, <<total>>, <<>>, <<>>, "")
CompleteEvent(result) ==
    Event("complete", "", <<100>>, <<>>, <<>>, <<>>, <<result>>, "")
ErrorEvent(message) ==
    Event("error", "", <<>>, <<>>, <<>>, <<>>, <<>>, message)

totalTrainees == Len(limitedTrainees)
totalCourses == Len(data.courses)
CurrentChunk == chunks[chunkIndex + 1]
\* the index within the chunk in place of the index within the run
indexWithinChunk == indexInChunk
\* line 121
globalIndex == processedCount + indexInChunk

runVars == <<cleanedData, filteredTrainees, limitedTrainees, similarityMatrix,
             chunks, traineeRecommendations, processedCount, chunkIndex,
             indexInChunk, probLog, scoreCalls>>
\* what a run does not touch: its arguments, the state of direct calls, and
\* the other run
dbVars == <<dbm, now, callers, importer>>
otherVars == <<lookup, dbVars, parked>>
argVars == <<options, hasCallback, env, otherVars>>
inputVars == <<data, argVars>>

\* if (progressCallback) progressCallback(ev), then on to nextPc; the call
\* may throw, which enters the catch block of line 234
Emit(ev, nextPc) ==
    IF hasCallback
    THEN /\ events' = Append(events, ev)
         /\ \/ pc' = nextPc /\ UNCHANGED outcome
            \/ /\ env.callbackMayThrow
               /\ pc' = "catch"
               /\ outcome' = [outcome EXCEPT !.error = "callback failed"]
    ELSE /\ pc' = nextPc
         /\ UNCHANGED <<events, outcome>>

\* applyTraineeFilters sorting the caller's array itself: the trainees it
\* returned first, then the others
DataSortedInPlace(d, filters, f) ==
    IF UsesRandomSample(filters)
    THEN LET Left(trainee) == \A i \in DOMAIN f : f[i] # trainee
         IN  [d EXCEPT !.trainees = f \o SelectSeq(d.trainees, Left)]
    ELSE d

\* the caller's dataset after lines 29-40, when applyTraineeFilters has
\* returned f: cleanDataIntegrity builds the valid enrollments with filter()
\* (511) and passes courses and trainees on, applyTraineeFilters sorts and
\* slices a copy of the trainees ([...trainees], 532, 593-599), and
\* limitedTrainees is a slice (40)
DataAfterFiltering(d, filters, f) == d

\* lines 15-44: validation, sanitisation, filtering, the maxTrainees cap
Start ==
    /\ pc = "start"
    /\ IF InvalidData(data)
       THEN /\ pc' = "catch"
            /\ outcome' = [outcome EXCEPT !.error = "Invalid data structure"]
            /\ UNCHANGED <<data, cleanedData, filteredTrainees, limitedTrainees>>
       ELSE /\ cleanedData' = CleanDataIntegrity(data)
            /\ \E f \in ApplyTraineeFilters(cleanedData'.trainees,
                           WithEnrollments(options.traineeFilters,
                                           cleanedData'.enrollments)) :
                  /\ filteredTrainees' = f
                  /\ limitedTrainees' = LimitTrainees(f, options.maxTrainees)
                  /\ data' = DataAfterFiltering(data, options.traineeFilters, f)
            /\ pc' = "initializing"
            /\ UNCHANGED outcome
    /\ UNCHANGED <<argVars, similarityMatrix, chunks, traineeRecommendations,
                   processedCount, chunkIndex, indexInChunk, events, probLog,
                   scoreCalls, listening>>

\* lines 47-57
Initializing ==
    /\ pc = "initializing"
    /\ Emit(InitializingEvent(totalTrainees), "course_analysis")
    /\ UNCHANGED <<inputVars, runVars, listening>>

\* lines 60-82: the course_analysis event, then the similarity matrix and the chunks
CourseAnalysis ==
    /\ pc = "course_analysis"
    /\ Emit(CourseAnalysisEvent(totalTrainees), "chunking_setup")
    /\ IF pc' = "catch"
       THEN UNCHANGED <<similarityMatrix, chunks>>
       ELSE /\ similarityMatrix' = CalculateBasicSimilarityMatrix(cleanedData.courses)
            /\ chunks' = MakeChunks(limitedTrainees, options.chunkSize)
    /\ UNCHANGED <<inputVars, cleanedData, filteredTrainees, limitedTrainees,
                   traineeRecommendations, processedCount, chunkIndex,
                   indexInChunk, probLog, scoreCalls, listening>>

\* lines 84-98
ChunkingSetup ==
    /\ pc = "chunking_setup"
    /\ Emit(ChunkingSetupEvent(totalTrainees), "chunk_loop")
    /\ UNCHANGED <<inputVars, runVars, listening>>

\* lines 100-116: the loop test holds
ChunkStart ==
    /\ pc = "chunk_loop"
    /\ chunkIndex < Len(chunks)
    /\ Emit(ChunkStartEvent(processedCount, totalTrainees), "trainee_loop")
    /\ indexInChunk' = 0
    /\ UNCHANGED <<inputVars, cleanedData, filteredTrainees, limitedTrainees,
                   similarityMatrix, chunks, traineeRecommendations,
                   processedCount, chunkIndex, probLog, scoreCalls, listening>>

\* line 100: the loop test fails
ChunkLoopExit ==
    /\ pc = "chunk_loop"
    /\ chunkIndex >= Len(chunks)
    /\ pc' = "complete"
    /\ UNCHANGED <<inputVars, runVars, events, listening, outcome>>

\* lines 119-142
TraineeStart ==
    /\ pc = "trainee_loop"
    /\ indexInChunk < Len(CurrentChunk)
    /\ Emit(TraineeStartEvent(globalIndex, totalTrainees), "score")
    /\ UNCHANGED <<inputVars, runVars, listening>>

\* lines 145-164: await generateTraineeRecommendations, then the push; the
\* awaited promise may reject
Score ==
    /\ pc = "score"
    /\ LET trainee == CurrentChunk[indexInChunk + 1]
       IN  /\ scoreCalls' = Append(scoreCalls, trainee.MemberId)
           /\ \/ /\ traineeRecommendations' =
                        Append(traineeRecommendations,
                               MakeTraineeResult(trainee,
                                   GenerateTraineeRecommendations(trainee,
                                       cleanedData.courses, cleanedData.enrollments,
                                       similarityMatrix, options),
                                   cleanedData))
                 /\ probLog' = probLog \o ProbabilitiesComputed(trainee,
                                   cleanedData.courses, cleanedData.enrollments,
                                   similarityMatrix)
                 /\ pc' = "trainee_complete"
                 /\ UNCHANGED outcome
              \/ /\ env.scoringMayThrow
                 /\ pc' = "catch"
                 /\ outcome' = [outcome EXCEPT !.error = "scoring failed"]
                 /\ UNCHANGED <<traineeRecommendations, probLog>>
    /\ UNCHANGED <<inputVars, cleanedData, filteredTrainees, limitedTrainees,
                   similarityMatrix, chunks, processedCount, chunkIndex,
                   indexInChunk, events, listening>>

\* lines 167-178
TraineeComplete ==
    /\ pc = "trainee_complete"
    /\ Emit(TraineeCompleteEvent(globalIndex, totalTrainees,
                traineeRecommendations[Len(traineeRecommendations)]),
            "trainee_delay")
    /\ UNCHANGED <<inputVars, runVars, listening>>

\* lines 181-182 going on to the next trainee's scoring, past lines 119-142
TraineeDelaySkipsStart ==
    /\ pc = "trainee_delay"
    /\ indexInChunk' = indexInChunk + 1
    /\ pc' = IF indexInChunk' < Len(CurrentChunk) THEN "score" ELSE "trainee_loop"
    /\ UNCHANGED <<inputVars, cleanedData, filteredTrainees, limitedTrainees,
                   similarityMatrix, chunks, traineeRecommendations,
                   processedCount, chunkIndex, events, probLog, scoreCalls,
                   listening, outcome>>

\* lines 181-182: await the 1 ms timer, then indexInChunk++
TraineeDelay ==
    /\ pc = "trainee_delay"
    /\ indexInChunk' = indexInChunk + 1
    /\ pc' = "trainee_loop"
    /\ UNCHANGED <<inputVars, cleanedData, filteredTrainees, limitedTrainees,
                   similarityMatrix, chunks, traineeRecommendations,
                   processedCount, chunkIndex, events, probLog, scoreCalls,
                   listening, outcome>>

\* lines 119 and 184-199: the inner loop ends, the chunk is complete
ChunkComplete ==
    /\ pc = "trainee_loop"
    /\ indexInChunk >= Len(CurrentChunk)
    /\ processedCount' = processedCount + Len(CurrentChunk)
    /\ Emit(ChunkCompleteEvent(processedCount', totalTrainees), "chunk_delay")
    /\ UNCHANGED <<inputVars, cleanedData, filteredTrainees, limitedTrainees,
                   similarityMatrix, chunks, traineeRecommendations, chunkIndex,
                   indexInChunk, probLog, scoreCalls, listening>>

\* lines 202-205 and 100: await the 10 ms timer unless it was the last chunk,
\* then chunkIndex++
ChunkDelay ==
    /\ pc = "chunk_delay"
    /\ chunkIndex' = chunkIndex + 1
    /\ pc' = "chunk_loop"
    /\ UNCHANGED <<inputVars, cleanedData, filteredTrainees, limitedTrainees,
                   similarityMatrix, chunks, traineeRecommendations,
                   processedCount, indexInChunk, events, probLog, scoreCalls,
                   listening, outcome>>

\* lines 208-224
Complete ==
    /\ pc = "complete"
    /\ Emit(CompleteEvent(MakeResult(traineeRecommendations, totalCourses)), "return")
    /\ UNCHANGED <<inputVars, runVars, listening>>

\* lines 226-232
Return ==
    /\ pc = "return"
    /\ outcome' = [status |-> "returned", error |-> "",
                   result |-> <<MakeResult(traineeRecommendations, totalCourses)>>]
    /\ pc' = "done"
    /\ UNCHANGED <<inputVars, runVars, events, listening>>

\* lines 234-246 without the error event of lines 237-243
CatchWithoutEvent ==
    /\ pc = "catch"
    /\ pc' = "done"
    /\ outcome' = [outcome EXCEPT !.status = "threw"]
    /\ UNCHANGED <<inputVars, runVars, events, listening>>

\* lines 234-246: the error event, then the rethrow; a callback that throws
\* here replaces the error thrown
Catch ==
    /\ pc = "catch"
    /\ pc' = "done"
    /\ IF hasCallback
       THEN /\ events' = Append(events, ErrorEvent(outcome.error))
            /\ \/ outcome' = [outcome EXCEPT !.status = "threw"]
               \/ /\ env.callbackMayThrow
                  /\ outcome' = [outcome EXCEPT !.status = "threw",
                                                !.error = "callback failed"]
       ELSE /\ outcome' = [outcome EXCEPT !.status = "threw"]
            /\ UNCHANGED events
    /\ UNCHANGED <<inputVars, runVars, listening>>

\* the run waits for a timer, so that other events of the process are handled:
\* the awaits of lines 181 and 203 (the latter not after the last chunk)
Suspended ==
    \/ pc = "trainee_delay"
    \/ pc = "chunk_delay" /\ chunkIndex < Len(chunks) - 1

\* the consumer behind progressCallback goes away while the run is suspended
ConsumerStops ==
    /\ hasCallback
    /\ env.consumerMayStop
    /\ listening
    /\ Suspended
    /\ listening' = FALSE
    /\ UNCHANGED <<inputVars, runVars, pc, events, outcome>>

\* the variables of the runs
runState == <<data, options, hasCallback, env, pc, runVars, events, listening,
              outcome, parked>>

\* the run that executes: its options argument, its position, its locals,
\* and what it has emitted and returned
Frame ==
    [options |-> options, pc |-> pc, cleanedData |-> cleanedData,
     filteredTrainees |-> filteredTrainees, limitedTrainees |-> limitedTrainees,
     similarityMatrix |-> similarityMatrix, chunks |-> chunks,
     traineeRecommendations |-> traineeRecommendations,
     processedCount |-> processedCount, chunkIndex |-> chunkIndex,
     indexInChunk |-> indexInChunk, events |-> events, probLog |-> probLog,
     scoreCalls |-> scoreCalls, listening |-> listening, outcome |-> outcome]

\* processedCount as a field of the engine that both runs share
ResumedSharingCounter(frame) ==
    [frame EXCEPT !.processedCount = processedCount]

\* what a run finds when it resumes: const and let of the function body
\* (lines 29-40, 73-83, 97), which belong to the invocation
Resumed(frame) == frame

\* the run that executes awaits (lines 145, 181, 203) or has finished, and
\* the other run, whose timer has fired or which has just been called,
\* executes
Switch ==
    /\ parked # <<>>
    /\ Suspended \/ pc = "score" \/ pc = "done"
    /\ parked[1].pc # "done"
    /\ LET next == Resumed(parked[1])
       IN  /\ options' = next.options
           /\ pc' = next.pc
           /\ cleanedData' = next.cleanedData
           /\ filteredTrainees' = next.filteredTrainees
           /\ limitedTrainees' = next.limitedTrainees
           /\ similarityMatrix' = next.similarityMatrix
           /\ chunks' = next.chunks
           /\ traineeRecommendations' = next.traineeRecommendations
           /\ processedCount' = next.processedCount
           /\ chunkIndex' = next.chunkIndex
           /\ indexInChunk' = next.indexInChunk
           /\ events' = next.events
           /\ probLog' = next.probLog
           /\ scoreCalls' = next.scoreCalls
           /\ listening' = next.listening
           /\ outcome' = next.outcome
    /\ parked' = <<Frame>>
    /\ UNCHANGED <<data, hasCallback, env, lookup, dbVars>>

\* a direct call of calculateFastRecommendationProbability(enrolledCourseIds,
\* course, enrollments, similarityMatrix)
CallProbability ==
    /\ pc = "lookup"
    /\ lookup.probability = <<>>
    /\ lookup' = [lookup EXCEPT !.probability =
                     <<CalculateFastRecommendationProbability(
                           lookup.enrolledCourseIds, lookup.course, data.courses,
                           data.enrollments, similarityMatrix)>>]
    /\ UNCHANGED <<runState, dbVars>>

\* a direct call of findTopSimilarCourses(courseId, enrolledCourseIds, courses,
\* similarityMatrix)
CallTopSimilar ==
    /\ pc = "lookup"
    /\ lookup.similarCourses = <<>>
    /\ lookup' = [lookup EXCEPT !.similarCourses =
                     <<FindTopSimilarCourses(lookup.course.CourseBasicDataId,
                           lookup.enrolledCourseIds, data.courses,
                           similarityMatrix)>>]
    /\ UNCHANGED <<runState, dbVars>>

NextLookup == CallProbability \/ CallTopSimilar

----------------------------------------------------------------------------
(* ResultCache: DatabaseManager of recommendationEngine.js *)

\* bounds of SpecCache: the calls of a caller, the imports, and the minutes
\* the clock runs
MaxCallsEach == 2
MaxImports == 1
MaxMinutes == 5

Minute == 60 * 1000
\* this.CACHE_DURATION, and the duration searchTrainees passes
CACHE_DURATION == 5 * Minute
SearchCacheDuration == 2 * Minute

Operations ==
    {"getFilteredTrainees", "getTraineeRecommendations", "getStatistics",
     "searchTrainees"}

\* the cache key of a call: the operation's prefix and its stringified arguments
CacheKey(op, params) == <<op, params>>

\* the duration the operation passes to setCache
CacheDurationOf(op) ==
    IF op = "searchTrainees" THEN SearchCacheDuration ELSE CACHE_DURATION

\* the queries the operation awaits one after the other
QueryCount(op) ==
    CASE op = "getFilteredTrainees" -> 2
      [] op = "getTraineeRecommendations" -> 2
      [] op = "getStatistics" -> 6
      [] op = "searchTrainees" -> 1

\* a Map with key set to value
MapSet(map, key, value) ==
    [k \in DOMAIN map \cup {key} |-> IF k = key THEN value ELSE map[k]]

\* a Map with key deleted
MapDelete(map, key) == [k \in DOMAIN map \ {key} |-> map[k]]

\* setCache that keeps the value of a key it already holds and only renews
\* the expiry
SetCacheKeepsValue(m, key, value, duration, t) ==
    [m EXCEPT !.cache = IF key \in DOMAIN m.cache THEN m.cache
                        ELSE MapSet(m.cache, key, value),
              !.cacheExpiry = MapSet(m.cacheExpiry, key, t + duration)]

\* setCache(key, value, duration) at time t
SetCache(m, key, value, duration, t) ==
    [m EXCEPT !.cache = MapSet(m.cache, key, value),
              !.cacheExpiry = MapSet(m.cacheExpiry, key, t + duration)]

\* the test of line 936 with <= in place of <
CacheFreshInclusive(m, key, t) ==
    /\ key \in DOMAIN m.cache
    /\ key \in DOMAIN m.cacheExpiry
    /\ t <= m.cacheExpiry[key]

\* the test of line 936 with > in place of <
CacheFreshInverted(m, key, t) ==
    /\ key \in DOMAIN m.cache
    /\ key \in DOMAIN m.cacheExpiry
    /\ t > m.cacheExpiry[key]

\* the tests of lines 934 and 936; expiry is undefined, and the comparison
\* false, when the expiry map lacks the key
CacheFresh(m, key, t) ==
    /\ key \in DOMAIN m.cache
    /\ key \in DOMAIN m.cacheExpiry
    /\ t < m.cacheExpiry[key]

\* getFromCache that removes an expired value and leaves its expiry
GetFromCacheKeepsExpiry(m, key, t) ==
    IF CacheFresh(m, key, t)
    THEN [value |-> <<m.cache[key]>>, dbm |-> m]
    ELSE [value |-> <<>>,
          dbm |-> [m EXCEPT !.cache = MapDelete(m.cache, key)]]

\* getFromCache(key) at time t: what it returns (<<>> for null) and what it
\* leaves of the maps
GetFromCache(m, key, t) ==
    IF CacheFresh(m, key, t)
    THEN [value |-> <<m.cache[key]>>, dbm |-> m]
    ELSE [value |-> <<>>,
          dbm |-> IF key \in DOMAIN m.cache
                  THEN [m EXCEPT !.cache = MapDelete(m.cache, key),
                                 !.cacheExpiry = MapDelete(m.cacheExpiry, key)]
                  ELSE m]

\* clearCache()
ClearCache(m) == [m EXCEPT !.cache = <<>>, !.cacheExpiry = <<>>]

\* a caller that has not called yet: the operations it will call, and how
\* many calls it will make
IdleCaller(ops, calls) ==
    [pc |-> "idle", op |-> "", params |-> "", queriesLeft |-> 0, rows |-> {},
     result |-> <<>>, fromCache |-> FALSE, ops |-> ops, callsLeft |-> calls]

\* what a query reads of the tables: the generations of the rows it finds,
\* 0 for a table that an import has emptied
RowsOf(db) == {db.courses, db.trainees, db.enrollments}

\* the result object of an operation: what its queries read, and processedAt
\* (generatedAt for the statistics); builtIn records, for the properties,
\* the generation the latest import that had begun was writing
MakeDbResult(rows, t, generation) ==
    [rows |-> rows, processedAt |-> t, builtIn |-> generation]

\* a cached operation is called: it looks its key up and returns the cached
\* value, or issues its first query
CallBegin(c, op, params) ==
    /\ callers[c].pc = "idle"
    /\ callers[c].callsLeft > 0
    /\ op \in callers[c].ops
    /\ LET looked == GetFromCache(dbm, CacheKey(op, params), now)
           call == [callers[c] EXCEPT !.op = op, !.params = params,
                                      !.callsLeft = @ - 1, !.rows = {}]
       IN  /\ dbm' = looked.dbm
           /\ callers' = [callers EXCEPT ![c] =
                 IF looked.value # <<>>
                 THEN [call EXCEPT !.result = looked.value, !.fromCache = TRUE]
                 ELSE [call EXCEPT !.pc = "querying", !.result = <<>>,
                                   !.fromCache = FALSE,
                                   !.queriesLeft = QueryCount(op)]]
    /\ UNCHANGED <<runState, lookup, now, importer>>

\* a query of the operation resolves with what the tables hold; after the
\* last one the result is built, cached and returned
QueryResolves(c) ==
    /\ callers[c].pc = "querying"
    /\ LET call == callers[c]
           rows == call.rows \cup RowsOf(dbm.db)
       IN  IF call.queriesLeft > 1
           THEN /\ callers' = [callers EXCEPT ![c] =
                      [call EXCEPT !.queriesLeft = @ - 1, !.rows = rows]]
                /\ UNCHANGED dbm
           ELSE LET result == MakeDbResult(rows, now, importer.generation)
                IN  /\ dbm' = SetCache(dbm, CacheKey(call.op, call.params), result,
                                       CacheDurationOf(call.op), now)
                    /\ callers' = [callers EXCEPT ![c] =
                          [call EXCEPT !.pc = "idle", !.queriesLeft = 0,
                                       !.rows = rows, !.result = <<result>>]]
    /\ UNCHANGED <<runState, lookup, now, importer>>

\* the awaited steps of importData: three deletes, then the rows of the
\* three tables
ImportSteps ==
    <<[table |-> "enrollments", delete |-> TRUE],
      [table |-> "trainees", delete |-> TRUE],
      [table |-> "courses", delete |-> TRUE],
      [table |-> "courses", delete |-> FALSE],
      [table |-> "trainees", delete |-> FALSE],
      [table |-> "enrollments", delete |-> FALSE]>>

\* no import in progress, the tables holding generation 1 of the dataset;
\* failedAt records, for the properties, the statement at which the last
\* import threw
IdleImporter(imports) ==
    [pc |-> 0, generation |-> 1, status |-> "none", importsLeft |-> imports,
     failedAt |-> 0]

\* importData(processedData) is called and issues its first delete
ImportBegin ==
    /\ importer.pc = 0
    /\ importer.importsLeft > 0
    /\ importer' = [pc |-> 1, generation |-> importer.generation + 1,
                    status |-> "running", importsLeft |-> importer.importsLeft - 1,
                    failedAt |-> 0]
    /\ UNCHANGED <<runState, lookup, dbm, now, callers>>

\* a statement of importData resolves; after the last one the cache is
\* cleared and importData returns
ImportStep ==
    /\ importer.pc \in DOMAIN ImportSteps
    /\ LET step == ImportSteps[importer.pc]
           written == [dbm EXCEPT !.db[step.table] =
                          IF step.delete THEN 0 ELSE importer.generation]
       IN  IF importer.pc < Len(ImportSteps)
           THEN /\ dbm' = written
                /\ importer' = [importer EXCEPT !.pc = @ + 1]
           ELSE /\ dbm' = ClearCache(written)
                /\ importer' = [importer EXCEPT !.pc = 0, !.status = "returned"]
    /\ UNCHANGED <<runState, lookup, now, callers>>

\* a statement of importData rejects: the catch of lines 496-499 rethrows
ImportFails ==
    /\ importer.pc \in DOMAIN ImportSteps
    /\ importer' = [importer EXCEPT !.pc = 0, !.status = "threw",
                                     !.failedAt = importer.pc]
    /\ UNCHANGED <<runState, lookup, dbm, now, callers>>

\* a minute passes
Tick ==
    /\ now < MaxMinutes * Minute
    /\ now' = now + Minute
    /\ UNCHANGED <<runState, lookup, dbm, callers, importer>>

NextCache ==
    \/ \E c \in DOMAIN callers, op \in Operations :
          \E params \in (IF op = "searchTrainees" THEN {"a", "b"} ELSE {"a"}) :
              CallBegin(c, op, params)
    \/ \E c \in DOMAIN callers : QueryResolves(c)
    \/ ImportBegin
    \/ ImportStep
    \/ ImportFails
    \/ Tick

\* two runs on one engine: the steps of the run that executes, and the
\* change of the run that executes
NextPair ==
    \/ Start
    \/ Initializing
    \/ CourseAnalysis
    \/ ChunkingSetup
    \/ ChunkStart
    \/ ChunkLoopExit
    \/ TraineeStart
    \/ Score
    \/ TraineeComplete
    \/ TraineeDelay
    \/ ChunkComplete
    \/ ChunkDelay
    \/ Complete
    \/ Return
    \/ Catch
    \/ ConsumerStops
    \/ Switch

Next ==
    \/ Start
    \/ Initializing
    \/ CourseAnalysis
    \/ ChunkingSetup
    \/ ChunkStart
    \/ ChunkLoopExit
    \/ TraineeStart
    \/ Score
    \/ TraineeComplete
    \/ TraineeDelay
    \/ ChunkComplete
    \/ ChunkDelay
    \/ Complete
    \/ Return
    \/ Catch
    \/ ConsumerStops

----------------------------------------------------------------------------
(* Inputs *)

\* bounds of the inputs of Spec
MaxTraineeCount == 3
MaxTraineesOption == 3
MaxChunkSize == 2
\* bounds of the inputs of SpecScore
MaxOwnEnrollments == 2
MaxCrowdEnrollments == 3
MaxRecommendationsOption == 2

\* the defaults of lines 18-22
DefaultMaxRecommendations == 5
DefaultMinProbability == Rat(1, 10)
DefaultMaxTrainees == 50
DefaultChunkSize == 20

Course(id, name, status) ==
    [CourseBasicDataId |-> id, CustomName |-> name, Status |-> status]
Enrollment(memberId, courseId) == [MemberId |-> memberId, CourseId |-> courseId]

TraineeNames ==
    << <<"A", "n", "n", " ", "L", "e", "e">>,
       <<"B", "o", "b", " ", "R", "a", "y">>,
       <<>> >>
TraineeEmails ==
    << <<"a", "n", "n", "@", "x", ".", "i", "o">>,
       <<"B", "o", "b", "@", "y", ".", "i", "o">>,
       <<>> >>
TraineePhones == << <<"5", "5", "5">>, <<"5", "5", "9">>, <<>> >>

\* the k-th trainee of the datasets: ids 100, 200, ...
TraineeNo(k) ==
    [MemberId |-> 100 * k,
     Name |-> TraineeNames[((k - 1) % Len(TraineeNames)) + 1],
     FirstName |-> <<>>,
     LastName |-> <<>>,
     Email |-> TraineeEmails[((k - 1) % Len(TraineeEmails)) + 1],
     Phone |-> TraineePhones[((k - 1) % Len(TraineePhones)) + 1]]

TraineeList(n) == [k \in 1 .. n |-> TraineeNo(k)]

\* the worked example: "Intro Python" (status 1), "Advanced Python" (status 3)
WorkedCourses ==
    << Course(1, <<"I", "n", "t", "r", "o", " ", "P", "y", "t", "h", "o", "n">>, 1),
       Course(2, <<"A", "d", "v", "a", "n", "c", "e", "d", " ", "P", "y", "t", "h", "o", "n">>, 3) >>

\* three-word names: "web app dev", "web sql ops", "net api css" (status 1)
ThreeWordCourses ==
    << Course(1, <<"w", "e", "b", " ", "a", "p", "p", " ", "d", "e", "v">>, 3),
       Course(2, <<"w", "e", "b", " ", "s", "q", "l", " ", "o", "p", "s">>, 3),
       Course(3, <<"n", "e", "t", " ", "a", "p", "i", " ", "c", "s", "s">>, 1) >>

\* a repeated word, mixed case, a run of blanks, short words:
\* "Data data science", "data  Mining of AI", and a second course with id 2
RepeatedWordCourses ==
    << Course(1, <<"D", "a", "t", "a", " ", "d", "a", "t", "a", " ", "s", "c", "i", "e", "n", "c", "e">>, 1),
       Course(2, <<"d", "a", "t", "a", " ", " ", "M", "i", "n", "i", "n", "g", " ", "o", "f", " ", "A", "I">>, 2),
       Course(2, <<"A", "I">>, 1) >>

\* the same words in another order: "web app dev", "dev web app" (status 1)
SameWordsCourses ==
    << Course(1, <<"w", "e", "b", " ", "a", "p", "p", " ", "d", "e", "v">>, 3),
       Course(2, <<"d", "e", "v", " ", "w", "e", "b", " ", "a", "p", "p">>, 1) >>

\* a repeated word, each id once: "Data data science", "data  Mining of AI"
RepeatedWordPair == SliceTo(RepeatedWordCourses, 2)

\* a name of three-letter words, one for each letter given
RECURSIVE TripleWords(_)
TripleWords(letters) ==
    IF letters = <<>> THEN <<>>
    ELSE LET word == <<Head(letters), Head(letters), Head(letters)>>
         IN  IF Len(letters) = 1 THEN word
             ELSE word \o <<" ">> \o TripleWords(Tail(letters))

\* similarities a cent apart or less: course 3 has 8 words, of which course
\* 1 has one (1/8 = 0.125) and course 2, of 15 words, has two (2/15 = 0.1333)
CloseSimilarityCourses ==
    << Course(1, TripleWords(<<"a">>), 3),
       Course(2, TripleWords(<<"b", "c", "i", "j", "k", "l", "m", "n", "o", "p",
                               "q", "r", "s", "t", "u">>), 3),
       Course(3, TripleWords(<<"a", "b", "c", "d", "e", "f", "g", "h">>), 1) >>

CourseFixtures ==
    {<<>>, WorkedCourses, ThreeWordCourses, RepeatedWordCourses, SameWordsCourses,
     RepeatedWordPair, CloseSimilarityCourses}

NoFilters ==
    [nameSearch |-> <<>>, emailSearch |-> <<>>, phoneSearch |-> <<>>,
     hasEnrollments |-> "undefined", enrolledInCourse |-> <<>>,
     minEnrollments |-> <<>>, maxEnrollments |-> <<>>,
     randomSample |-> FALSE, randomSampleSize |-> 0, maxResults |-> 0,
     enrollments |-> <<>>]

FilterFixtures ==
    { NoFilters,
      [NoFilters EXCEPT !.hasEnrollments = "true"],
      [NoFilters EXCEPT !.nameSearch = <<" ", "B", "O", "B">>],
      [NoFilters EXCEPT !.minEnrollments = <<2>>, !.maxEnrollments = <<1>>],
      [NoFilters EXCEPT !.maxResults = 2],
      [NoFilters EXCEPT !.randomSample = TRUE, !.randomSampleSize = 2,
                        !.maxResults = 1] }

Dataset(courses, trainees, enrollments) ==
    [isNull |-> FALSE, present |-> Collections, courses |-> courses,
     trainees |-> trainees, enrollments |-> enrollments]

\* the worked example: trainee 100, enrolled in course 1
WorkedExample == Dataset(WorkedCourses, TraineeList(1), <<Enrollment(100, 1)>>)

\* a dataset without its enrollments collection
DatasetWithoutEnrollments ==
    [isNull |-> FALSE, present |-> {"courses", "trainees"},
     courses |-> WorkedCourses, trainees |-> TraineeList(1), enrollments |-> <<>>]

\* the worked example as null, and without each one of its collections
InvalidDatasets ==
    {[WorkedExample EXCEPT !.isNull = TRUE]}
    \cup {[WorkedExample EXCEPT !.present = Collections \ {c}, ![c] = <<>>] :
              c \in Collections}

QuietEnv == [callbackMayThrow |-> FALSE, scoringMayThrow |-> FALSE,
             consumerMayStop |-> FALSE]
RoughEnv == [callbackMayThrow |-> TRUE, scoringMayThrow |-> TRUE,
             consumerMayStop |-> TRUE]

Options(maxRecommendations, minProbability, maxTrainees, chunkSize, traineeFilters) ==
    [maxRecommendations |-> maxRecommendations, minProbability |-> minProbability,
     maxTrainees |-> maxTrainees, chunkSize |-> chunkSize,
     traineeFilters |-> traineeFilters]

\* no direct call
NoLookup ==
    [enrolledCourseIds |-> <<>>, course |-> Course(0, <<>>, 0),
     probability |-> <<>>, similarCourses |-> <<>>]

\* a DatabaseManager after construction, its tables filled and nothing
\* cached, at time 0, with the callers that will use it and the imports
\* that will be made
NewDatabaseManager(itsCallers, imports) ==
    /\ dbm = [cache |-> <<>>, cacheExpiry |-> <<>>,
              db |-> [courses |-> 1, trainees |-> 1, enrollments |-> 1]]
    /\ now = 0
    /\ callers = itsCallers
    /\ importer = IdleImporter(imports)

\* a DatabaseManager nobody calls
FreshDatabase == NewDatabaseManager(<<>>, 0)

\* the state of a run that has not started
NotStarted ==
    /\ pc = "start"
    /\ cleanedData = Dataset(<<>>, <<>>, <<>>)
    /\ filteredTrainees = <<>>
    /\ limitedTrainees = <<>>
    /\ similarityMatrix = <<>>
    /\ chunks = <<>>
    /\ traineeRecommendations = <<>>
    /\ processedCount = 0
    /\ chunkIndex = 0
    /\ indexInChunk = 0
    /\ events = <<>>
    /\ probLog = <<>>
    /\ scoreCalls = <<>>
    /\ listening = TRUE
    /\ outcome = [status |-> "running", error |-> "", result |-> <<>>]
    /\ lookup = NoLookup
    /\ parked = <<>>
    /\ FreshDatabase

RunEnrollmentFixtures ==
    { <<>>,
      <<Enrollment(100, 1)>>,
      <<Enrollment(100, 1), Enrollment(200, 2), Enrollment(100, 9), Enrollment(200, 1)>> }

\* Inputs of Spec: the worked example's courses, up to MaxTraineeCount
\* trainees, every cap, chunk size and filter path, in every environment
Init ==
    /\ \/ /\ \E n \in 0 .. MaxTraineeCount, e \in RunEnrollmentFixtures :
                data = Dataset(WorkedCourses, TraineeList(n), e)
          /\ \E cap \in 1 .. MaxTraineesOption, size \in 1 .. MaxChunkSize,
                f \in FilterFixtures :
                options = Options(DefaultMaxRecommendations, DefaultMinProbability,
                                  cap, size, f)
          /\ hasCallback = TRUE
          /\ env \in {QuietEnv, RoughEnv}
       \/ /\ data \in InvalidDatasets \cup {WorkedExample}
          /\ options = Options(DefaultMaxRecommendations, DefaultMinProbability,
                               DefaultMaxTrainees, DefaultChunkSize, NoFilters)
          /\ hasCallback \in BOOLEAN
          /\ env = RoughEnv
    /\ NotStarted

Spec == Init /\ [][Next]_vars

\* the enrollments of trainee 100: up to MaxOwnEnrollments, in any course,
\* also one the dataset does not hold (9)
OwnEnrollments ==
    UNION {[1 .. n -> {Enrollment(100, c) : c \in {1, 2, 9}}] :
              n \in 0 .. MaxOwnEnrollments}

\* the enrollments of the others: member 200, several times in one course, or
\* often enough in course 2 to pass the popularity cap
CrowdEnrollments ==
    {[i \in 1 .. k |-> Enrollment(200, c)] : k \in 0 .. MaxCrowdEnrollments,
                                             c \in {1, 2, 3}}
    \cup {[i \in 1 .. PopularCrowdSize |-> Enrollment(200, 2)]}

MinProbabilityFixtures == {Rat(1, 10), Rat(3, 10), Rat(1, 2)}

\* Inputs of SpecScore: every course fixture with every enrollment list of
\* the two families, scored for trainee 100
InitScore ==
    /\ \/ /\ \E courses \in CourseFixtures, own \in OwnEnrollments,
                crowd \in CrowdEnrollments :
                data = Dataset(courses, TraineeList(1), own \o crowd)
          /\ \E maxRec \in 1 .. MaxRecommendationsOption,
                minProb \in MinProbabilityFixtures :
                options = Options(maxRec, minProb, DefaultMaxTrainees,
                                  DefaultChunkSize, NoFilters)
          /\ hasCallback = TRUE
          /\ env = QuietEnv
       \/ /\ data \in {DatasetWithoutEnrollments,
                       WorkedExample}
          /\ options = Options(DefaultMaxRecommendations, DefaultMinProbability,
                               DefaultMaxTrainees, DefaultChunkSize, NoFilters)
          /\ hasCallback = TRUE
          /\ env = RoughEnv
    /\ NotStarted

SpecScore == InitScore /\ [][Next]_vars

\* bound of randomSampleSize and maxResults in the inputs of SpecFilter
MaxSampleSize == 3

\* trainee 100 twice enrolled, 200 once and once in a course the dataset does
\* not hold, 300 only in such a course, the others not at all
FilterEnrollments ==
    <<Enrollment(100, 1), Enrollment(100, 2), Enrollment(200, 1),
      Enrollment(200, 9), Enrollment(300, 9)>>

\* every combination of the predicates: " BOB", blanks only and "e" for the
\* name, ".IO " for the email, "55" for the phone
PredicateFilters ==
    {[NoFilters EXCEPT !.nameSearch = name, !.emailSearch = email,
                       !.phoneSearch = phone, !.hasEnrollments = has,
                       !.enrolledInCourse = inCourse,
                       !.minEnrollments = min, !.maxEnrollments = max] :
        name \in {<<>>, <<" ", "B", "O", "B">>, <<" ", " ">>, <<"e">>},
        email \in {<<>>, <<".", "I", "O", " ">>},
        phone \in {<<>>, <<"5", "5">>},
        has \in {"undefined", "true", "false"},
        inCourse \in {<<>>, <<1>>, <<2, 9>>},
        min \in {<<>>, <<0>>, <<1>>, <<2>>},
        max \in {<<>>, <<0>>, <<1>>}}

\* randomSample and maxResults in every combination, after no predicate,
\* after hasEnrollments and after a name search
SamplingFilters ==
    {[base EXCEPT !.randomSample = sample, !.randomSampleSize = size,
                  !.maxResults = maxResults] :
        base \in {NoFilters, [NoFilters EXCEPT !.hasEnrollments = "true"],
                  [NoFilters EXCEPT !.nameSearch = <<"e">>]},
        sample \in BOOLEAN,
        size \in 0 .. MaxSampleSize,
        maxResults \in 0 .. MaxSampleSize}

\* Inputs of SpecFilter: MaxTraineeCount trainees under every filter
InitFilter ==
    /\ \/ /\ data = Dataset(WorkedCourses, TraineeList(MaxTraineeCount),
                             FilterEnrollments)
          /\ \E f \in PredicateFilters \cup SamplingFilters :
                options = Options(DefaultMaxRecommendations, DefaultMinProbability,
                                  DefaultMaxTrainees, DefaultChunkSize, f)
          /\ hasCallback = TRUE
          /\ env = QuietEnv
       \/ /\ data \in InvalidDatasets \cup {WorkedExample}
          /\ options = Options(DefaultMaxRecommendations, DefaultMinProbability,
                               DefaultMaxTrainees, DefaultChunkSize, NoFilters)
          /\ hasCallback = TRUE
          /\ env = RoughEnv
    /\ NotStarted

SpecFilter == InitFilter /\ [][Next]_vars

\* a course no list holds: "web app" (status 1)
UnlistedCourse == Course(7, <<"w", "e", "b", " ", "a", "p", "p">>, 1)

\* Inputs of SpecLookup: the matrix of a course list, a course of the list or
\* the unlisted one, and up to MaxOwnEnrollments enrolled course ids, listed
\* (1, 2) or not (9)
InitLookup ==
    /\ \E courses \in {WorkedCourses, ThreeWordCourses, SameWordsCourses},
          crowd \in {<<>>, <<Enrollment(200, 2)>>} :
          /\ data = Dataset(courses, <<>>, crowd)
          /\ cleanedData = data
          /\ similarityMatrix = CalculateBasicSimilarityMatrix(courses)
          /\ \E course \in Range(courses) \cup {UnlistedCourse},
                n \in 0 .. MaxOwnEnrollments :
                \E ids \in [1 .. n -> {1, 2, 9}] :
                    lookup = [NoLookup EXCEPT !.course = course,
                                              !.enrolledCourseIds = ids]
    /\ options = Options(DefaultMaxRecommendations, DefaultMinProbability,
                         DefaultMaxTrainees, DefaultChunkSize, NoFilters)
    /\ hasCallback = FALSE
    /\ env = QuietEnv
    /\ pc = "lookup"
    /\ filteredTrainees = <<>> /\ limitedTrainees = <<>> /\ chunks = <<>>
    /\ traineeRecommendations = <<>> /\ events = <<>> /\ probLog = <<>>
    /\ scoreCalls = <<>>
    /\ processedCount = 0 /\ chunkIndex = 0 /\ indexInChunk = 0
    /\ listening = TRUE
    /\ outcome = [status |-> "running", error |-> "", result |-> <<>>]
    /\ FreshDatabase
    /\ parked = <<>>

SpecLookup == InitLookup /\ [][NextLookup]_vars

\* Inputs of SpecCache: no run, and a new DatabaseManager with one caller
\* that calls a cached operation several times while the dataset is
\* imported several times, or with two concurrent callers that call it once
\* each while the dataset is imported once
InitCache ==
    /\ data = Dataset(<<>>, <<>>, <<>>)
    /\ options = Options(DefaultMaxRecommendations, DefaultMinProbability,
                         DefaultMaxTrainees, DefaultChunkSize, NoFilters)
    /\ hasCallback = FALSE
    /\ env = QuietEnv
    /\ pc = "start"
    /\ cleanedData = Dataset(<<>>, <<>>, <<>>)
    /\ filteredTrainees = <<>> /\ limitedTrainees = <<>>
    /\ similarityMatrix = <<>> /\ chunks = <<>>
    /\ traineeRecommendations = <<>>
    /\ processedCount = 0 /\ chunkIndex = 0 /\ indexInChunk = 0
    /\ events = <<>> /\ probLog = <<>> /\ scoreCalls = <<>>
    /\ listening = TRUE
    /\ outcome = [status |-> "running", error |-> "", result |-> <<>>]
    /\ lookup = NoLookup
    /\ parked = <<>>
    /\ \E op \in Operations :
          \/ NewDatabaseManager(<<IdleCaller({op}, MaxCallsEach)>>, MaxImports)
          \/ NewDatabaseManager(<<IdleCaller({op}, 1), IdleCaller({op}, 1)>>, 1)

SpecCache == InitCache /\ [][NextCache]_vars

\* the options of a run of SpecPair: every chunk size, with or without a
\* name filter
PairOptions ==
    {Options(DefaultMaxRecommendations, DefaultMinProbability,
             MaxTraineesOption, size, f) :
        size \in 1 .. MaxChunkSize,
        f \in {NoFilters, [NoFilters EXCEPT !.nameSearch = <<"e">>]}}

\* Inputs of SpecPair: two calls on one engine with the same dataset and
\* callback, each with its own options; the first executes from its start,
\* the second is called when the first awaits
InitPair ==
    /\ \E n \in 1 .. MaxTraineeCount :
          data = Dataset(WorkedCourses, TraineeList(n),
                         <<Enrollment(100, 1), Enrollment(200, 2)>>)
    /\ options \in PairOptions
    /\ hasCallback = TRUE
    /\ env \in {QuietEnv, RoughEnv}
    /\ pc = "start"
    /\ cleanedData = Dataset(<<>>, <<>>, <<>>)
    /\ filteredTrainees = <<>> /\ limitedTrainees = <<>>
    /\ similarityMatrix = <<>> /\ chunks = <<>>
    /\ traineeRecommendations = <<>>
    /\ processedCount = 0 /\ chunkIndex = 0 /\ indexInChunk = 0
    /\ events = <<>> /\ probLog = <<>> /\ scoreCalls = <<>>
    /\ listening = TRUE
    /\ outcome = [status |-> "running", error |-> "", result |-> <<>>]
    /\ lookup = NoLookup
    /\ FreshDatabase
    /\ \E other \in PairOptions : parked = <<[Frame EXCEPT !.options = other]>>

SpecPair == InitPair /\ [][NextPair]_vars

----------------------------------------------------------------------------
(* Properties of the sanitised data and of the scoring *)

\* the run has sanitised its dataset
Sanitised == pc # "start" /\ ~InvalidData(data)

\* the courses a trainee is enrolled in according to the sanitised enrollments
EnrolledSet(traineeId) ==
    {cleanedData.enrollments[i].CourseId :
        i \in {j \in DOMAIN cleanedData.enrollments :
                  cleanedData.enrollments[j].MemberId = traineeId}}

\* every trainee result the run has produced: pushed, handed to the callback
\* in a trainee_complete event or in the complete event, or returned
ResultsProduced ==
    Range(traineeRecommendations)
    \cup UNION {Range(events[i].traineeResult) : i \in DOMAIN events}
    \cup UNION {Range(events[i].result[1].data) :
                   i \in {j \in DOMAIN events : events[j].result # <<>>}}
    \cup (IF outcome.result = <<>> THEN {} ELSE Range(outcome.result[1].data))

\* C1: no trainee result recommends a course the trainee is enrolled in
\* according to the sanitised enrollments
C1_NoEnrolledCourseRecommended ==
    \A r \in ResultsProduced :
        \A k \in DOMAIN r.recommendations :
            r.recommendations[k].courseId \notin EnrolledSet(r.traineeId)

\* a trainee with a sanitised enrollment got recommendations, and an enrolled
\* course of the list was passed over
C1_Witness ==
    \E r \in ResultsProduced :
        /\ r.recommendations # <<>>
        /\ EnrolledSet(r.traineeId) \cap CourseIds(cleanedData.courses) # {}

InUnitInterval(x) == RatLe(RatZero, x) /\ RatLe(x, RatOne)

\* C2: every probability the scoring computes, and every probability a
\* recommendation reports, lies in [0, 1]
C2_ProbabilityInUnitInterval ==
    /\ \A i \in DOMAIN probLog : InUnitInterval(probLog[i].probability)
    /\ \A r \in ResultsProduced :
          \A k \in DOMAIN r.recommendations :
              InUnitInterval(r.recommendations[k].probability)

\* a candidate whose factors add up to more than 1 (popularity at its cap, a
\* similarity of 1, the status bonus) was scored and is reported with 1
C2_Witness ==
    /\ \E i \in DOMAIN probLog :
          LET courseId == probLog[i].courseId
              course == LastCourseWithId(cleanedData.courses, courseId)
          IN  /\ RatEq(probLog[i].probability, RatOne)
              /\ CourseEnrollmentCount(courseId, cleanedData.enrollments) > 30
              /\ course.Status = 1
              /\ \E e \in EnrolledSet(probLog[i].traineeId) :
                    RatEq(MatrixLookup(similarityMatrix, courseId, e), RatOne)
    /\ \E r \in ResultsProduced :
          \E k \in DOMAIN r.recommendations :
              RatEq(r.recommendations[k].probability, RatOne)

\* the largest element of a non-empty set of rationals
RatMaximum(S) == CHOOSE m \in S : \A x \in S : RatLe(x, m)

\* the weighting of the specification, for a trainee and a course id: 0.1 +
\* min(count / 100, 0.3) + 0.5 * (largest similarity to an enrolled course,
\* 0 without one) + (0.2 if the status is 1), clamped to [0, 1]
ReferenceProbability(traineeId, course) ==
    LET E == EnrolledSet(traineeId)
        c == course.CourseBasicDataId
        count == Cardinality({i \in DOMAIN cleanedData.enrollments :
                                 cleanedData.enrollments[i].CourseId = c})
        popularity == IF count >= 30 THEN Rat(3, 10) ELSE Rat(count, 100)
        best == IF E = {} THEN RatZero
                ELSE RatMaximum({MatrixLookup(similarityMatrix, c, e) : e \in E})
        bonus == IF course.Status = 1 THEN Rat(2, 10) ELSE RatZero
        sum == RatAdd(RatAdd(Rat(1, 10), popularity),
                      RatAdd(RatMul(Rat(1, 2), best), bonus))
    IN  RatMax(RatZero, RatMin(sum, RatOne))

\* the course of the sanitised list a log entry or a recommendation is about:
\* the k-th candidate of the trainee
CandidateNo(traineeId, k) ==
    LET NotEnrolled(course) == course.CourseBasicDataId \notin EnrolledSet(traineeId)
    IN  SelectSeq(cleanedData.courses, NotEnrolled)[k]

\* the entries of probLog of one trainee, in order
LogOf(traineeId) ==
    LET IsOf(entry) == entry.traineeId = traineeId
    IN  SelectSeq(probLog, IsOf)

\* C3: the probability computed for a trainee and a candidate course is the
\* fixed-constant weighting of the specification, the probability reported
\* is that value rounded to two decimals, and the worked example gives 0.35
\* for course 2
C3_FixedConstantWeighting ==
    /\ \A t \in {probLog[i].traineeId : i \in DOMAIN probLog} :
          \A k \in DOMAIN LogOf(t) :
              /\ LogOf(t)[k].courseId = CandidateNo(t, k).CourseBasicDataId
              /\ RatEq(LogOf(t)[k].probability,
                       ReferenceProbability(t, CandidateNo(t, k)))
    /\ \A r \in ResultsProduced :
          \A k \in DOMAIN r.recommendations :
              \E course \in Range(cleanedData.courses) :
                  /\ course.CourseBasicDataId = r.recommendations[k].courseId
                  /\ course.CustomName = r.recommendations[k].courseName
                  /\ RatEq(r.recommendations[k].probability,
                           Round2(ReferenceProbability(r.traineeId, course)))
    /\ data = WorkedExample =>
          /\ \A i \in DOMAIN probLog :
                probLog[i] = [traineeId |-> 100, courseId |-> 2,
                              probability |-> Rat(35, 100)]
          /\ \A r \in ResultsProduced :
                /\ r.traineeId = 100
                /\ \A k \in DOMAIN r.recommendations :
                      /\ r.recommendations[k].courseId = 2
                      /\ r.recommendations[k].probability = Rat(35, 100)
                /\ RatLe(options.minProbability, Rat(35, 100)) =>
                      Len(r.recommendations) = 1

\* the worked example has been scored
C3_Witness ==
    /\ data = WorkedExample
    /\ Len(traineeRecommendations) = 1
    /\ Len(traineeRecommendations[1].recommendations) = 1
    /\ probLog # <<>>

\* C5: every sanitised enrollment has the id of a course of the input, and
\* an empty course list leaves no enrollment
C5_SanitisedEnrollmentsReferToCourses ==
    Sanitised =>
        /\ \A i \in DOMAIN cleanedData.enrollments :
              \E j \in DOMAIN data.courses :
                  data.courses[j].CourseBasicDataId = cleanedData.enrollments[i].CourseId
        /\ data.courses = <<>> => cleanedData.enrollments = <<>>

\* an enrollment in an unknown course was dropped and another one kept
C5_Witness ==
    /\ Sanitised
    /\ cleanedData.enrollments # <<>>
    /\ Len(cleanedData.enrollments) < Len(data.enrollments)

\* the candidate courses of a trainee: the sanitised courses it is not enrolled in
CandidatesOf(traineeId) ==
    {course \in Range(cleanedData.courses) :
        course.CourseBasicDataId \notin EnrolledSet(traineeId)}

\* the candidates whose probability is at least minProbability
QualifyingOf(traineeId) ==
    {course \in CandidatesOf(traineeId) :
        RatLe(options.minProbability, ReferenceProbability(traineeId, course))}

\* the course a recommendation is about
CourseOfRecommendation(rec) ==
    CHOOSE course \in Range(cleanedData.courses) :
        /\ course.CourseBasicDataId = rec.courseId
        /\ course.CustomName = rec.courseName
        /\ course.Status = rec.courseStatus

\* C4: the recommendations of a trainee are the qualifying candidates in
\* descending order of probability, cut to maxRecommendations: the list is
\* non-increasing in probability, holds no more than maxRecommendations
\* entries and none below minProbability, and leaves out no qualifying
\* candidate of a higher probability than one it holds
C4_RankedByProbability ==
    \A r \in ResultsProduced :
        LET recs == r.recommendations
            P(course) == ReferenceProbability(r.traineeId, course)
            included == {CourseOfRecommendation(recs[i]) : i \in DOMAIN recs}
        IN  /\ Len(recs) <= options.maxRecommendations
            /\ included \subseteq QualifyingOf(r.traineeId)
            /\ \/ Len(recs) = options.maxRecommendations
               \/ Len(recs) >= Cardinality(QualifyingOf(r.traineeId))
            /\ \A i, j \in DOMAIN recs :
                  i < j => RatLe(P(CourseOfRecommendation(recs[j])),
                                 P(CourseOfRecommendation(recs[i])))
            /\ \A left \in QualifyingOf(r.traineeId) \ included :
                  \A kept \in included : ~RatLt(P(kept), P(left))

----------------------------------------------------------------------------
(* Properties of the chunked run and its event stream *)

\* the stage of an event: the stage of a progress event, the type of the others
StageOf(ev) == IF ev.type = "progress" THEN ev.stage ELSE ev.type

\* the positions of the events of one stage
EventsAt(stage) == {i \in DOMAIN events : StageOf(events[i]) = stage}

\* the trainee results of the trainee_complete events, in emission order
StreamedResults ==
    LET IsTraineeComplete(ev) == ev.type = "trainee_complete"
        completes == SelectSeq(events, IsTraineeComplete)
    IN  [i \in DOMAIN completes |-> completes[i].traineeResult[1]]

\* C6: on a run that completes, the results of the trainee_complete events
\* in emission order are the data of the final result, which holds the first
\* min(|filter output|, maxTrainees) trainees of the filter output, each once
\* and in order
C6_StreamEqualsResult ==
    outcome.status = "returned" =>
        LET final == outcome.result[1].data
            n == Min2(Len(filteredTrainees), options.maxTrainees)
        IN  /\ Len(final) = n
            /\ \A i \in 1 .. n : final[i].traineeId = filteredTrainees[i].MemberId
            /\ hasCallback => StreamedResults = final

\* a completed run of several chunks whose working set the cap cut short
C6_Witness ==
    /\ outcome.status = "returned"
    /\ hasCallback
    /\ Len(chunks) >= 2
    /\ Len(filteredTrainees) > options.maxTrainees
    /\ Len(StreamedResults) >= 2

\* the order of the code: chunk_start and chunk_complete bracket each chunk,
\* trainee_start and trainee_complete alternate within it
CodeOrder(a, b) ==
    \/ a = "initializing" /\ b = "course_analysis"
    \/ a = "course_analysis" /\ b = "chunking_setup"
    \/ a = "chunking_setup" /\ b \in {"chunk_start", "complete"}
    \/ a = "chunk_start" /\ b = "trainee_start"
    \/ a = "trainee_start" /\ b = "trainee_complete"
    \/ a = "trainee_complete" /\ b \in {"trainee_start", "chunk_complete"}
    \/ a = "chunk_complete" /\ b \in {"chunk_start", "complete"}
    \/ a # "error" /\ b = "error"

\* the order the claim states: initializing -> course_analysis ->
\* chunking_setup -> {chunk_start -> trainee_start -> trainee_complete}* ->
\* chunk_complete -> complete, or error in place of the rest
ClaimedOrder(a, b) ==
    \/ a = "initializing" /\ b = "course_analysis"
    \/ a = "course_analysis" /\ b = "chunking_setup"
    \/ a = "chunking_setup" /\ b \in {"chunk_start", "chunk_complete"}
    \/ a = "chunk_start" /\ b = "trainee_start"
    \/ a = "trainee_start" /\ b = "trainee_complete"
    \/ a = "trainee_complete" /\ b \in {"chunk_start", "chunk_complete"}
    \/ a = "chunk_complete" /\ b = "complete"
    \/ a # "error" /\ b = "error"

\* at most one trainee, and one chunk, is in progress
OneAtATime ==
    /\ Cardinality(EventsAt("trainee_start"))
          - Cardinality(EventsAt("trainee_complete")) \in {0, 1}
    /\ Cardinality(EventsAt("chunk_start"))
          - Cardinality(EventsAt("chunk_complete")) \in {0, 1}

\* C7 as claimed: the events follow the order of the claim
C7_ClaimedStageOrder ==
    /\ events # <<>> => StageOf(events[1]) \in {"initializing", "error"}
    /\ \A i \in 1 .. (Len(events) - 1) :
          ClaimedOrder(StageOf(events[i]), StageOf(events[i + 1]))
    /\ OneAtATime

\* C7, amended: the events follow initializing -> course_analysis ->
\* chunking_setup -> {chunk_start -> {trainee_start -> trainee_complete}+ ->
\* chunk_complete}* -> complete; an error event may follow any event and is
\* the last one; a run that returns has emitted complete last; at most one
\* trainee and one chunk are in progress
C7_StageOrder ==
    /\ events # <<>> => StageOf(events[1]) \in {"initializing", "error"}
    /\ \A i \in 1 .. (Len(events) - 1) :
          CodeOrder(StageOf(events[i]), StageOf(events[i + 1]))
    /\ OneAtATime
    /\ outcome.status = "returned" /\ hasCallback =>
          StageOf(events[Len(events)]) = "complete"

\* a completed run of two chunks, one of them with two trainees
C7_Witness ==
    /\ outcome.status = "returned"
    /\ \E i \in 1 .. (Len(events) - 1) :
          /\ StageOf(events[i]) = "trainee_complete"
          /\ StageOf(events[i + 1]) = "trainee_start"
    /\ \E i \in 1 .. (Len(events) - 1) :
          /\ StageOf(events[i]) = "chunk_complete"
          /\ StageOf(events[i + 1]) = "chunk_start"

\* C8: a run that has ended has emitted exactly one terminal event, complete
\* or error, and emitted it last
C8_OneTerminalEventLast ==
    pc = "done" /\ hasCallback =>
        /\ Cardinality(EventsAt("complete") \cup EventsAt("error")) = 1
        /\ StageOf(events[Len(events)]) \in {"complete", "error"}

\* the scoring of a trainee threw: it was called once more than it returned
ScoringFailed ==
    /\ pc \in {"catch", "done"}
    /\ Len(scoreCalls) > Len(traineeRecommendations)

\* C9: when the scoring of a trainee throws, the run ends with the error
\* event carrying the message and nothing after it, no trainee is scored
\* twice, and the trainee_complete events are the results of the trainees
\* before the failing one
C9_ScoringFailureAborts ==
    ScoringFailed =>
        LET failing == Len(scoreCalls)
        IN  /\ outcome.status # "returned"
            /\ EventsAt("complete") = {}
            /\ \A i \in 1 .. failing : scoreCalls[i] = limitedTrainees[i].MemberId
            /\ Len(traineeRecommendations) = failing - 1
            /\ \A i \in 1 .. (failing - 1) :
                  traineeRecommendations[i].traineeId = limitedTrainees[i].MemberId
            /\ hasCallback =>
                  /\ StreamedResults = traineeRecommendations
                  /\ LET n == Len(events)
                         last == IF pc = "done" THEN n - 1 ELSE n
                     IN  /\ StageOf(events[last]) = "trainee_start"
                         /\ events[last].processedTrainees = <<failing - 1>>
                         /\ EventsAt("error") = (IF pc = "done" THEN {n} ELSE {})
                         /\ pc = "done" => events[n] = ErrorEvent("scoring failed")
            /\ pc = "done" => outcome.status = "threw"

\* the scoring of a later trainee threw, and the run has ended
C9_Witness ==
    /\ ScoringFailed
    /\ pc = "done"
    /\ hasCallback
    /\ Len(traineeRecommendations) >= 1

\* C10: once the consumer has stopped listening, no event is emitted and no
\* trainee is scored
C10_StopsWhenConsumerLeaves ==
    [][~listening => events' = events /\ scoreCalls' = scoreCalls]_vars

----------------------------------------------------------------------------
(* Properties of the progress figures and of the validation *)

SetupStages == {"initializing", "course_analysis", "chunking_setup"}
WorkStages == {"chunk_start", "trainee_start", "trainee_complete", "chunk_complete"}

\* round(n / d) for n >= 0, d > 0, halves upward
RoundRatio(n, d) == (2 * n + d) \div (2 * d)

\* C11: the events of the chunk loop report 20 + round(processed / total * 70)
\* of the processedTrainees and totalTrainees they carry, the setup events
\* report less than 20, no event before complete reports more than 90, and
\* complete reports 100
C11_ProgressFormula ==
    \A i \in DOMAIN events :
        LET ev == events[i]
        IN  /\ StageOf(ev) \in WorkStages =>
                /\ ev.processedTrainees # <<>> /\ ev.totalTrainees # <<>>
                /\ ev.totalTrainees[1] > 0
                /\ ev.processedTrainees[1] \in 0 .. ev.totalTrainees[1]
                /\ ev.progress =
                      <<20 + RoundRatio(ev.processedTrainees[1] * 70,
                                        ev.totalTrainees[1])>>
            /\ StageOf(ev) \in SetupStages =>
                  ev.progress # <<>> /\ ev.progress[1] < 20
            /\ StageOf(ev) \notin {"complete", "error"} => ev.progress[1] <= 90
            /\ StageOf(ev) = "complete" => ev.progress = <<100>>

\* a completed run whose events report a fraction that needs rounding
C11_Witness ==
    /\ EventsAt("complete") # {}
    /\ \E i \in EventsAt("trainee_complete") :
          (events[i].processedTrainees[1] * 70) % events[i].totalTrainees[1] # 0
    /\ \E i \in EventsAt("chunk_complete") :
          events[i].progress = <<90>>

\* the dataset, or one of its required collections, is missing
DatasetMissing == data.isNull \/ \E c \in Collections : c \notin data.present

\* C12: with the dataset or one of its collections missing the run fails at
\* once: the only event is the error event, and nothing has been sanitised,
\* filtered or scored
C12_InvalidDatasetFailsImmediately ==
    DatasetMissing =>
        /\ pc \in {"start", "catch", "done"}
        /\ cleanedData = Dataset(<<>>, <<>>, <<>>)
        /\ filteredTrainees = <<>> /\ limitedTrainees = <<>>
        /\ scoreCalls = <<>> /\ probLog = <<>> /\ traineeRecommendations = <<>>
        /\ outcome.status # "returned"
        /\ pc = "start" => events = <<>>
        /\ pc = "catch" => events = <<>> /\ outcome.error = "Invalid data structure"
        /\ pc = "done" =>
              /\ outcome.status = "threw"
              /\ events = IF hasCallback
                          THEN <<ErrorEvent("Invalid data structure")>> ELSE <<>>

\* a run on a dataset without one of its collections has failed, and the
\* callback has been told
C12_Witness ==
    /\ ~data.isNull /\ data.present # Collections
    /\ pc = "done"
    /\ events # <<>>

----------------------------------------------------------------------------
(* Properties of the trainee filters *)

\* the filters ask for at least more enrollments than they allow at most
ContradictoryFilters(filters) ==
    /\ filters.minEnrollments # <<>>
    /\ filters.maxEnrollments # <<>>
    /\ filters.minEnrollments[1] > filters.maxEnrollments[1]

\* C13: a run whose trainee filters are contradictory scores no trainee and
\* never completes successfully
C13_ContradictoryFiltersRejected ==
    ContradictoryFilters(options.traineeFilters) =>
        /\ scoreCalls = <<>>
        /\ EventsAt("complete") = {}
        /\ outcome.status # "returned"

\* the number of enrollments of a trainee
EnrollmentsOf(trainee, enrollments) ==
    Cardinality({i \in DOMAIN enrollments :
                    enrollments[i].MemberId = trainee.MemberId})

\* the trainee satisfies every predicate the filters supply
SatisfiesFilters(trainee, filters, enrollments) ==
    LET count == EnrollmentsOf(trainee, enrollments)
        name == Trim(ToLowerCase(filters.nameSearch))
        email == Trim(ToLowerCase(filters.emailSearch))
        phone == Trim(filters.phoneSearch)
    IN  /\ \E field \in {trainee.Name, trainee.FirstName, trainee.LastName} :
              Includes(ToLowerCase(field), name)
        /\ Includes(ToLowerCase(trainee.Email), email)
        /\ Includes(trainee.Phone, phone)
        /\ filters.hasEnrollments = "true" => count >= 1
        /\ filters.hasEnrollments = "false" => count = 0
        /\ filters.minEnrollments # <<>> => count >= filters.minEnrollments[1]
        /\ filters.maxEnrollments # <<>> => count <= filters.maxEnrollments[1]
        /\ filters.enrolledInCourse # <<>> =>
              \E i \in DOMAIN enrollments :
                  /\ enrollments[i].MemberId = trainee.MemberId
                  /\ enrollments[i].CourseId \in Range(filters.enrolledInCourse)

\* the trainees satisfying every predicate, in input order
ExactSubset(trainees, filters, enrollments) ==
    LET Satisfies(trainee) == SatisfiesFilters(trainee, filters, enrollments)
    IN  SelectSeq(trainees, Satisfies)

\* the predicates the filters supply
ActivePredicates(filters) ==
    {k \in {"nameSearch", "emailSearch", "phoneSearch", "enrolledInCourse",
            "minEnrollments", "maxEnrollments"} : filters[k] # <<>>}
    \cup (IF filters.hasEnrollments # "undefined" THEN {"hasEnrollments"} ELSE {})

\* C14: with no randomSample and no maxResults the filtered trainees are
\* exactly the trainees satisfying every supplied predicate, in input order
C14_FilterExactSubset ==
    (Sanitised /\ ~options.traineeFilters.randomSample
               /\ options.traineeFilters.maxResults = 0) =>
        filteredTrainees =
            ExactSubset(cleanedData.trainees, options.traineeFilters,
                        cleanedData.enrollments)

\* three predicates at once have kept some trainees and removed others
C14_Witness ==
    /\ Sanitised
    /\ ~options.traineeFilters.randomSample
    /\ options.traineeFilters.maxResults = 0
    /\ Cardinality(ActivePredicates(options.traineeFilters)) >= 3
    /\ options.traineeFilters.hasEnrollments = "false"
    /\ filteredTrainees # <<>>
    /\ Len(filteredTrainees) < Len(cleanedData.trainees)

\* the trainees passing the predicates of the run's filters
PassingPredicates ==
    ExactSubset(cleanedData.trainees, options.traineeFilters,
                cleanedData.enrollments)

\* the list holds n entries of the other list, no entry of it twice
IsSampleOf(sample, n, population) ==
    /\ Len(sample) = n
    /\ \E f \in [1 .. n -> DOMAIN population] :
          /\ \A i, j \in 1 .. n : f[i] = f[j] => i = j
          /\ \A i \in 1 .. n : sample[i] = population[f[i]]

\* C15: a random sample of size N, N no more than the trainees passing the
\* predicates, is exactly N distinct trainees among those passing
C15_RandomSampleExactSize ==
    (/\ Sanitised
     /\ options.traineeFilters.randomSample
     /\ options.traineeFilters.randomSampleSize <= Len(PassingPredicates)) =>
        IsSampleOf(filteredTrainees, options.traineeFilters.randomSampleSize,
                   PassingPredicates)

\* C16: with randomSample the result is a sample of randomSampleSize of the
\* trainees passing the predicates, all of them if fewer pass, whatever
\* maxResults is; without it the result is the first maxResults of them
C16_SampleBeforeMaxResults ==
    Sanitised =>
        LET filters == options.traineeFilters
        IN  IF filters.randomSample
            THEN IsSampleOf(filteredTrainees,
                            Min2(filters.randomSampleSize, Len(PassingPredicates)),
                            PassingPredicates)
            ELSE filteredTrainees =
                    IF filters.maxResults > 0
                    THEN SliceTo(PassingPredicates, filters.maxResults)
                    ELSE PassingPredicates

----------------------------------------------------------------------------
(* Properties of the similarity matrix *)

\* the set of lowercase words of more than two characters of a course name
Tokens(course) == Range(CourseWords(course.CustomName))

\* |tokens(a) \cap tokens(b)| / max(|tokens(a)|, |tokens(b)|), 0 when one of
\* the sets is empty
TokenSimilarity(a, b) ==
    LET ta == Tokens(a)
        tb == Tokens(b)
        largest == IF Cardinality(ta) >= Cardinality(tb)
                   THEN Cardinality(ta) ELSE Cardinality(tb)
    IN  IF ta = {} \/ tb = {} THEN RatZero
        ELSE Rat(Cardinality(ta \cap tb), largest)

\* the positions of the courses whose id no other course of the list has
UniqueCourses(courses) ==
    {i \in DOMAIN courses :
        \A j \in DOMAIN courses :
            courses[j].CourseBasicDataId = courses[i].CourseBasicDataId => j = i}

MatrixBuilt == Sanitised /\ pc \notin {"initializing", "course_analysis", "catch"}

\* C17: for all courses a and b (each the only one with its id) the matrix
\* entry is 1 when a = b and the similarity of their token sets otherwise
C17_MatrixEqualsTokenSimilarity ==
    MatrixBuilt /\ similarityMatrix # <<>> =>
        \A i, j \in UniqueCourses(cleanedData.courses) :
            LET a == cleanedData.courses[i]
                b == cleanedData.courses[j]
            IN  similarityMatrix[a.CourseBasicDataId][b.CourseBasicDataId] =
                    IF i = j THEN RatOne ELSE TokenSimilarity(a, b)

\* the pair of ids has an entry in the matrix
InMatrix(a, b) == a \in DOMAIN similarityMatrix /\ b \in DOMAIN similarityMatrix[a]

\* the enrolled ids of the direct call that have a matrix entry with its course
KnownEnrolledIds ==
    LET Known(id) == InMatrix(lookup.course.CourseBasicDataId, id)
    IN  SelectSeq(lookup.enrolledCourseIds, Known)

\* C18: a pair of ids of which one or both are absent from the matrix counts
\* as similarity 0: the probability is the base, the popularity, half the
\* largest similarity among the pairs present (0 when none is) and the status
\* bonus, capped at 1, and the similar courses are those of the pairs present
C18_AbsentPairCountsAsZero ==
    /\ lookup.probability # <<>> =>
          LET c == lookup.course
              present == {similarityMatrix[c.CourseBasicDataId][KnownEnrolledIds[i]] :
                             i \in DOMAIN KnownEnrolledIds}
              largest == RatMaximum(present \cup {RatZero})
              sum == RatAdd(RatAdd(RatAdd(BaseProbability,
                                PopularityFactor(c, data.courses, data.enrollments)),
                                RatMul(largest, SimilarityWeight)),
                            IF c.Status = CreatedStatus THEN StatusBonus ELSE RatZero)
          IN  lookup.probability = <<RatMin(sum, RatOne)>>
    /\ lookup.similarCourses # <<>> =>
          /\ \A i \in DOMAIN lookup.similarCourses[1] :
                InMatrix(lookup.course.CourseBasicDataId,
                         lookup.similarCourses[1][i].courseId)
          /\ lookup.similarCourses[1] =
                FindTopSimilarCourses(lookup.course.CourseBasicDataId,
                                      KnownEnrolledIds, data.courses,
                                      similarityMatrix)

\* both helpers were called with an id the matrix has no column for, next to
\* one it has
C18_Witness ==
    /\ lookup.probability # <<>>
    /\ lookup.similarCourses # <<>>
    /\ lookup.similarCourses[1] # <<>>
    /\ 9 \in Range(lookup.enrolledCourseIds)
    /\ KnownEnrolledIds # <<>>
    /\ lookup.course # UnlistedCourse

----------------------------------------------------------------------------
(* Determinism *)

\* what the claim compares: the trainees in order, each with the course ids
\* and probabilities of its recommendations in order
Essence(results) ==
    [i \in DOMAIN results |->
        [traineeId |-> results[i].traineeId,
         recommendations |->
            [k \in DOMAIN results[i].recommendations |->
                [courseId |-> results[i].recommendations[k].courseId,
                 probability |-> results[i].recommendations[k].probability]]]]

\* the results of a run whose filters return the list f
ResultsFor(f) ==
    LET cleaned == CleanDataIntegrity(data)
        limited == LimitTrainees(f, options.maxTrainees)
        matrix == CalculateBasicSimilarityMatrix(cleaned.courses)
    IN  [i \in DOMAIN limited |->
            MakeTraineeResult(limited[i],
                GenerateTraineeRecommendations(limited[i], cleaned.courses,
                    cleaned.enrollments, matrix, options),
                cleaned)]

\* the results of every run on the dataset and options of this one
PossibleResults ==
    LET cleaned == CleanDataIntegrity(data)
    IN  {Essence(ResultsFor(f)) :
            f \in ApplyTraineeFilters(cleaned.trainees,
                      WithEnrollments(options.traineeFilters, cleaned.enrollments))}

\* C19: without randomSample every run on the same dataset and options
\* returns what this run returned: the same trainees in the same order, each
\* with the same recommendations in the same order
C19_SameInputSameResult ==
    (outcome.status = "returned" /\ ~options.traineeFilters.randomSample) =>
        PossibleResults = {Essence(outcome.result[1].data)}

\* a run without randomSample, but with a sample size, has returned
\* recommendations for two trainees or more
C19_Witness ==
    /\ outcome.status = "returned"
    /\ ~options.traineeFilters.randomSample
    /\ options.traineeFilters.randomSampleSize > 0
    /\ Len(outcome.result[1].data) >= 2
    /\ \E i \in DOMAIN outcome.result[1].data :
          outcome.result[1].data[i].recommendations # <<>>

----------------------------------------------------------------------------
(* Properties of the result cache *)

\* caller c calls a cached operation in this step
Calls(c) ==
    /\ callers[c].pc = "idle"
    /\ callers'[c].callsLeft < callers[c].callsLeft

\* C20: a call of a cached operation whose key has an entry that an earlier
\* call stored, made before the entry's expiry, returns the stored value,
\* issues no query and leaves the cache as it was
C20_HitReturnsStoredValue ==
    [][\A c \in DOMAIN callers :
          LET key == CacheKey(callers'[c].op, callers'[c].params)
          IN  (/\ Calls(c)
               /\ key \in DOMAIN dbm.cache
               /\ key \in DOMAIN dbm.cacheExpiry
               /\ now < dbm.cacheExpiry[key])
              => /\ callers'[c].pc = "idle"
                 /\ callers'[c].queriesLeft = 0
                 /\ callers'[c].fromCache
                 /\ callers'[c].result = <<dbm.cache[key]>>
                 /\ dbm' = dbm]_vars

\* a caller has got, after time has passed, the value an earlier call stored
C20_Witness ==
    \E c \in DOMAIN callers :
        LET key == CacheKey(callers[c].op, callers[c].params)
        IN  /\ callers[c].pc = "idle"
            /\ callers[c].fromCache
            /\ key \in DOMAIN dbm.cache
            /\ callers[c].result = <<dbm.cache[key]>>
            /\ now > dbm.cache[key].processedAt

\* caller c gets the result of its last query, stores it and returns
Stores(c) ==
    /\ callers[c].pc = "querying"
    /\ callers'[c].pc = "idle"

\* the TTL the specification gives the operation of a key
TtlOf(key) ==
    IF key[1] = "searchTrainees" THEN 2 * 60 * 1000 ELSE 5 * 60 * 1000

\* C21: an entry's expiry is the time of the store plus the operation's TTL
\* (2 minutes for search, 5 minutes otherwise) and no later step changes it;
\* a lookup before the expiry returns the value and changes no expiry, a
\* lookup at or after the expiry reports a miss and removes the entry
C21_LifetimeFixedAtStore ==
    [][/\ \A c \in DOMAIN callers :
             LET key == CacheKey(callers'[c].op, callers'[c].params)
             IN  /\ Stores(c) =>
                       /\ key \in DOMAIN dbm'.cache
                       /\ key \in DOMAIN dbm'.cacheExpiry
                       /\ dbm'.cacheExpiry[key] = now + TtlOf(key)
                 /\ (Calls(c) /\ key \in DOMAIN dbm.cache) =>
                       IF now < dbm.cacheExpiry[key]
                       THEN /\ callers'[c].fromCache
                            /\ callers'[c].result = <<dbm.cache[key]>>
                            /\ dbm'.cacheExpiry = dbm.cacheExpiry
                       ELSE /\ ~callers'[c].fromCache
                            /\ callers'[c].pc = "querying"
                            /\ key \notin DOMAIN dbm'.cache
                            /\ key \notin DOMAIN dbm'.cacheExpiry
       /\ \A key \in DOMAIN dbm.cacheExpiry \cap DOMAIN dbm'.cacheExpiry :
             dbm'.cacheExpiry[key] # dbm.cacheExpiry[key] =>
                 \E c \in DOMAIN callers :
                     /\ Stores(c)
                     /\ key = CacheKey(callers[c].op, callers[c].params)]_vars

\* one caller has stored an entry, no import has run, and the lookup of
\* another caller, made exactly at the entry's expiry, has missed and
\* removed it
C21_Witness ==
    \E c, d \in DOMAIN callers :
        LET key == CacheKey(callers[c].op, callers[c].params)
        IN  /\ c # d
            /\ callers[c].pc = "idle"
            /\ callers[c].result # <<>>
            /\ ~callers[c].fromCache
            /\ callers[d].pc = "querying"
            /\ key = CacheKey(callers[d].op, callers[d].params)
            /\ key \notin DOMAIN dbm.cache
            /\ key \notin DOMAIN dbm.cacheExpiry
            /\ now = callers[c].result[1].processedAt + TtlOf(key)
            /\ importer.status = "none"

\* the last import has returned, or has thrown after its first delete had
\* resolved
ImportFinished ==
    /\ importer.pc = 0
    /\ \/ importer.status = "returned"
       \/ importer.status = "threw" /\ importer.failedAt > 1

\* C22: once importData has returned, or has thrown after it had started
\* replacing rows, a lookup that hits returns a value stored after that
\* import began
C22_ImportClearsCache ==
    [][\A c \in DOMAIN callers :
          (Calls(c) /\ callers'[c].fromCache /\ ImportFinished) =>
              callers'[c].result[1].builtIn = importer.generation]_vars

\* callers c and d have both computed and returned a result for the same key
BothComputed(c, d) ==
    /\ c # d
    /\ callers[c].pc = "idle" /\ callers[d].pc = "idle"
    /\ callers[c].result # <<>> /\ callers[d].result # <<>>
    /\ ~callers[c].fromCache /\ ~callers[d].fromCache
    /\ CacheKey(callers[c].op, callers[c].params)
           = CacheKey(callers[d].op, callers[d].params)

\* C23: a request that finds its key missing starts computing even while
\* another request computes the same key; when, with no import involved,
\* both have returned, each result is built from the complete dataset, and
\* the cache holds for the key one of the two results, with the expiry of
\* that result's store
C23_ConcurrentMissesBothCompute ==
    /\ [][\A c \in DOMAIN callers :
             (Calls(c) /\ CacheKey(callers'[c].op, callers'[c].params)
                             \notin DOMAIN dbm.cache)
             => (callers'[c].pc = "querying" /\ ~callers'[c].fromCache)]_vars
    /\ [](\A c, d \in DOMAIN callers :
             (BothComputed(c, d) /\ importer.status = "none") =>
                 LET key == CacheKey(callers[c].op, callers[c].params)
                     rc == callers[c].result[1]
                     rd == callers[d].result[1]
                 IN  /\ rc.rows = {1} /\ rd.rows = {1}
                     /\ rc.processedAt <= now /\ rd.processedAt <= now
                     /\ key \in DOMAIN dbm.cache
                     /\ key \in DOMAIN dbm.cacheExpiry
                     /\ dbm.cache[key] \in {rc, rd}
                     /\ dbm.cacheExpiry[key]
                            = dbm.cache[key].processedAt + TtlOf(key))

\* two callers have both computed the same key with no import involved; the
\* second stored its result before the first one's entry could expire, so
\* it had looked the key up before the first one stored; the cache holds
\* the second result
C23_Witness ==
    \E c, d \in DOMAIN callers :
        /\ BothComputed(c, d)
        /\ importer.status = "none"
        /\ LET key == CacheKey(callers[c].op, callers[c].params)
               rc == callers[c].result[1]
               rd == callers[d].result[1]
           IN  /\ rc.processedAt < rd.processedAt
               /\ rd.processedAt < rc.processedAt + TtlOf(key)
               /\ dbm.cache[key] = rd
               /\ dbm.cache[key] # rc

\* importData is between its first delete and its final cache clear
ImportRunning == importer.pc \in DOMAIN ImportSteps

\* a result built from one complete generation of the dataset
FromCompleteDataset(result) ==
    \E g \in 1 .. importer.generation : result.rows = {g}

\* C24: no cached query is in progress while importData runs, no caller
\* holds a result built from a partially imported dataset, and none is in
\* the cache once the import has returned
C24_ImportExcludesReads ==
    /\ \A c \in DOMAIN callers :
          ~(callers[c].pc = "querying" /\ ImportRunning)
    /\ \A c \in DOMAIN callers :
          callers[c].result # <<>> => FromCompleteDataset(callers[c].result[1])
    /\ importer.status = "returned" =>
          \A key \in DOMAIN dbm.cache : FromCompleteDataset(dbm.cache[key])

----------------------------------------------------------------------------
(* Two runs on one engine *)

\* the trainees a run alone works on, when its filters do not sample
AloneFiltered ==
    LET cleaned == CleanDataIntegrity(data)
    IN  CHOOSE f \in ApplyTraineeFilters(cleaned.trainees,
                        WithEnrollments(options.traineeFilters,
                                        cleaned.enrollments)) : TRUE

\* the trainee events of a run alone for the trainees from position g up to
\* position last, counted from 0
RECURSIVE AloneTraineeEvents(_, _, _, _)
AloneTraineeEvents(results, g, last, total) ==
    IF g > last THEN <<>>
    ELSE <<TraineeStartEvent(g, total), TraineeCompleteEvent(g, total, results[g + 1])>>
         \o AloneTraineeEvents(results, g + 1, last, total)

\* the events of a run alone from chunk k on, k counted from 0
RECURSIVE AloneChunkEvents(_, _, _, _)
AloneChunkEvents(results, k, size, total) ==
    IF k * size >= total THEN <<>>
    ELSE LET end == Min2((k + 1) * size, total)
         IN  <<ChunkStartEvent(k * size, total)>>
             \o AloneTraineeEvents(results, k * size, end - 1, total)
             \o <<ChunkCompleteEvent(end, total)>>
             \o AloneChunkEvents(results, k + 1, size, total)

\* the events a run alone emits on the dataset and the options of the run
\* that executes, in a quiet environment; the last one carries what it
\* returns
AloneEvents ==
    LET results == ResultsFor(AloneFiltered)
        total == Len(results)
    IN  <<InitializingEvent(total), CourseAnalysisEvent(total),
          ChunkingSetupEvent(total)>>
        \o AloneChunkEvents(results, 0, options.chunkSize, total)
        \o <<CompleteEvent(MakeResult(results, Len(data.courses)))>>

\* C25: of two runs interleaved at their awaits, the one that has finished
\* has emitted the events it emits alone and returned what it returns alone
C25_InterleavedRunsAsAlone ==
    (parked # <<>> /\ env = QuietEnv /\ pc = "done") =>
        LET alone == AloneEvents
        IN  /\ events = alone
            /\ outcome.status = "returned"
            /\ outcome.result = alone[Len(alone)].result

\* a run of two trainees or more has finished while the other run, which
\* has a different chunk size, is between two trainees
C25_Witness ==
    /\ parked # <<>>
    /\ env = QuietEnv
    /\ pc = "done"
    /\ Len(traineeRecommendations) >= 2
    /\ parked[1].pc = "trainee_delay"
    /\ Len(parked[1].traineeRecommendations) >= 1
    /\ parked[1].options.chunkSize # options.chunkSize

----------------------------------------------------------------------------
(* Further properties of the scoring *)

\* C26: the similarity matrix is symmetric: for all courses a and b of the
\* sanitised list (each the only one with its id), matrix[a][b] = matrix[b][a]
C26_MatrixSymmetric ==
    MatrixBuilt /\ similarityMatrix # <<>> =>
        \A i, j \in UniqueCourses(cleanedData.courses) :
            LET a == cleanedData.courses[i].CourseBasicDataId
                b == cleanedData.courses[j].CourseBasicDataId
            IN  similarityMatrix[a][b] = similarityMatrix[b][a]

\* C27: the similarCourses of a recommendation of course c are at most 2,
\* each an enrolled course of the trainee whose similarity to c is above
\* 0.1, in descending order of similarity, and no enrolled course left out
\* has a higher similarity to c than a listed one
C27_TopSimilarCourses ==
    \A r \in ResultsProduced :
        \A k \in DOMAIN r.recommendations :
            LET listed == r.recommendations[k].similarCourses
                S(e) == MatrixLookup(similarityMatrix,
                                     r.recommendations[k].courseId, e)
                E == EnrolledSet(r.traineeId)
            IN  /\ Len(listed) <= 2
                /\ \A i \in DOMAIN listed :
                      /\ listed[i].courseId \in E
                      /\ RatLt(Rat(1, 10), S(listed[i].courseId))
                /\ \A i, j \in DOMAIN listed :
                      i < j => RatLe(S(listed[j].courseId), S(listed[i].courseId))
                /\ \A e \in E \ {listed[i].courseId : i \in DOMAIN listed} :
                      \A i \in DOMAIN listed : ~RatLt(S(listed[i].courseId), S(e))

-----------------------------------------------------------------------------
(* Properties of the run's inputs and progress *)

Carrying(field) == SelectSeq([i \in DOMAIN events |-> i],
                            LAMBDA i : events[i][field] # <<>>)

\* C29: along the events of a run the progress never decreases and lies in
\* 0 .. 100, processedTrainees never decreases and never exceeds the
\* totalTrainees of its event, and the k-th trainee_complete event carries
\* processedTrainees = k, whichever chunk its trainee is in
C29_ProgressMonotone ==
    LET withProgress == Carrying("progress")
        withProcessed == Carrying("processedTrainees")
        completions == SelectSeq([i \in DOMAIN events |-> i],
                           LAMBDA i : StageOf(events[i]) = "trainee_complete")
    IN  /\ \A k \in DOMAIN withProgress :
              /\ events[withProgress[k]].progress[1] \in 0 .. 100
              /\ k > 1 => events[withProgress[k - 1]].progress[1]
                              <= events[withProgress[k]].progress[1]
        /\ \A k \in DOMAIN withProcessed :
              LET ev == events[withProcessed[k]]
              IN  /\ ev.totalTrainees # <<>>
                  /\ ev.processedTrainees[1] \in 0 .. ev.totalTrainees[1]
                  /\ k > 1 => events[withProcessed[k - 1]].processedTrainees[1]
                                  <= ev.processedTrainees[1]
        /\ \A k \in DOMAIN completions :
              events[completions[k]].processedTrainees = <<k>>

\* a completed run of three trainees in two chunks: the third trainee_complete
\* event comes after a chunk_complete event
C29_Witness ==
    /\ EventsAt("complete") # {}
    /\ Len(chunks) = 2
    /\ Cardinality(EventsAt("trainee_complete")) = 3
    /\ \E i \in EventsAt("chunk_complete"), j \in EventsAt("trainee_complete") :
          i < j /\ events[j].processedTrainees = <<3>>

-----------------------------------------------------------------------------
(* The two maps of the result cache *)

\* C30: whatever stores, lookups and clears have happened, the value map and
\* the expiry map hold the same keys: no value without an expiry, no expiry
\* without a value
C30_SameKeysInBothMaps == DOMAIN dbm.cache = DOMAIN dbm.cacheExpiry

\* no import has begun, and the only caller has made its two calls: the first
\* stored an entry, the lookup of the second found it expired and removed it,
\* and its store has set the entry again
C30_Witness ==
    /\ Len(callers) = 1
    /\ importer.pc = 0
    /\ importer.importsLeft = MaxImports
    /\ LET caller == callers[1]
           key == CacheKey(caller.op, caller.params)
       IN  /\ caller.pc = "idle"
           /\ caller.callsLeft = 0
           /\ ~caller.fromCache
           /\ key \in DOMAIN dbm.cache
           /\ key \in DOMAIN dbm.cacheExpiry
           /\ caller.result = <<dbm.cache[key]>>
           /\ caller.result[1].processedAt >= TtlOf(key)

=============================================================================
